---- MODULE Spec2Model ----
(***************************************************************************)
(* Crypto-Platform-MVP as state machines, one specification per part: the  *)
(* prediction pipeline (1_Architecture.md, predict_30_steps), the candle   *)
(* history provider (getFreshCandles, getLatestPrice, the /api/candles     *)
(* route), the symbol search route, the PolygonWebSocketServer singleton,  *)
(* the PolygonWebSocketClient, the useRealtimeStream hook, the throttle    *)
(* wrapper of useChart, fetchWithRetry, cleanOHLCVData and the chart       *)
(* indicators (calculateRSI, formatVolumeData).  While one part is         *)
(* explored the others rest in their initial state.                        *)
(*                                                                         *)
(* Fixed point.  Prices are integers counting halves (2 is the price 1.0), *)
(* so that `volatility * 0.5` is exact for a volatility that is a whole    *)
(* price.  Confidences are integers counting 1/12000 (10200 is 0.85), the  *)
(* smallest unit in which the source's 0.25 / 30 per step, its two-decimal *)
(* rounding and the quarter steps of a five-step decay are all integers.   *)
(***************************************************************************)
EXTENDS Integers, Sequences, FiniteSets, Bags, TLC

VARIABLES
    \* ---- forecast pipeline ----
    candles,        \* the historical series handed to generateForecast
    predictor,      \* the model (or weighted ensemble) used by the step loop
    fpc,            \* "start" | "loop" | "returned" | "raised"
    current,        \* the feature state (predict_30_steps: current)
    step,           \* the loop variable of predict_30_steps
    forecast,       \* the local list of assembled forecast steps
    returned,       \* what the caller received
    error,          \* the error surfaced to the caller ("none" when none)
    predictCalls,   \* number of predictor invocations so far
    \* ---- candle history provider ----
    polygonFeed,    \* the raw aggregates Polygon.io holds for X:BTCUSD 1h, oldest first
    redisCache,     \* cache key -> stored JSON value (Null when absent)
    call,           \* the latest getFreshCandles invocation and what it returned
    response,       \* the HTTP response of the latest /api/candles request
    latestPrice,    \* what the latest getLatestPrice call returned
    \* ---- symbol search endpoint ----
    symbolsTable,   \* the rows of the symbols table
    searchCache,    \* Redis: symbol_search key -> stored value and seconds to live
    handlers,       \* the GET /api/symbols/search invocations in flight (a bag)
    lastMiss,       \* history: per (q up to case, limit), the latest cached:false
                    \* answer and its age
    searchResponse, \* the latest response sent
    \* ---- PolygonWebSocketServer ----
    server,         \* the singleton's fields: ws, state, subscriberCount,
                    \* reconnectTimer, heartbeatTimer
    upstream,       \* the upstream sockets created so far that can still emit events
    orphanReconnects, \* pending reconnect timeouts whose handle was overwritten
    graceTimers,    \* seconds left on each pending grace timeout, oldest first
    quiet,          \* history: seconds since the most recent removeSubscriber
    \* ---- PolygonWebSocketClient ----
    client,         \* the client's fields: ws, state, subscriptions,
                    \* reconnectTimer, heartbeatTimer, messageBuffer
    clientSockets,  \* its sockets that can still emit events, and what each transmitted
    clientTimeouts, \* pending reconnect timeouts
    recovering      \* history: a socket closed uncleanly and disconnect() was not
                    \* called since

VARIABLES
    \* ---- useRealtimeStream ----
    stream,         \* useRealtimeStream: the committed status state, the queued
                    \* setStatus, whether the effect of the last commit has yet to
                    \* run, and the refs
    autoConnect,    \* the hook's autoConnect option
    orphanRetries,  \* pending reconnect timeouts whose handle was overwritten
    errors,         \* history: connection errors since the last open or explicit
                    \* connect(), counted up to MAX_RETRIES
    made            \* history: what the last step did ("effect", "timeout" or
                    \* "explicit" when it created an EventSource, "open", "none")

VARIABLES
    \* ---- throttle (useChart) ----
    clock,          \* Date.now(), in milliseconds
    throttled,      \* the closure throttle returned: lastCall
    ticks,          \* how often the clock advanced
    calls,          \* history: the calls of the wrapper, when each was made and
                    \* whether the wrapped function ran in it
    runs            \* history: the times at which the wrapped function ran

VARIABLES
    \* ---- fetchWithRetry ----
    fetchArgs,      \* fetchWithRetry's arguments: retries, backoffMs
    fetchPc,        \* "called" | "request" (awaiting fetch) | "backoff" (awaiting
                    \* the timeout) | "returned" | "thrown"
    fetchI,         \* the loop variable i
    fetchResult,    \* what the caller received: a body or an error
    attempts,       \* history: the outcome of each request issued, in order
    waits           \* history: the delays waited, in order

VARIABLES
    \* ---- cleanOHLCVData ----
    rawInput,        \* the aggregates handed to cleanOHLCVData
    cleaned         \* what cleanOHLCVData returned (done is FALSE before the call)

VARIABLES
    \* ---- chart indicators ----
    chartData,      \* the candles handed to the indicator functions
    rsiPeriod,      \* calculateRSI's period argument
    rsiResult,      \* what calculateRSI returned (done is FALSE before the call)
    volumeResult    \* what formatVolumeData returned

fvars == <<candles, predictor, fpc, current, step, forecast, returned, error,
           predictCalls>>

cvars == <<polygonFeed, redisCache, call, response, latestPrice>>

svars == <<symbolsTable, searchCache, handlers, lastMiss, searchResponse>>

wvars == <<server, upstream, orphanReconnects, graceTimers, quiet>>

kvars == <<client, clientSockets, clientTimeouts, recovering>>

rvars == <<stream, autoConnect, orphanRetries, errors, made>>

tvars == <<clock, throttled, ticks, calls, runs>>

qvars == <<fetchArgs, fetchPc, fetchI, fetchResult, attempts, waits>>

dvars == <<rawInput, cleaned>>

ivars == <<chartData, rsiPeriod, rsiResult, volumeResult>>

vars == <<fvars, cvars, svars, wvars, kvars, rvars, tvars, qvars, dvars, ivars>>

\* what the actions of one subsystem leave alone
notF == <<cvars, svars, wvars, kvars, rvars, tvars, qvars, dvars, ivars>>
notC == <<fvars, svars, wvars, kvars, rvars, tvars, qvars, dvars, ivars>>
notS == <<fvars, cvars, wvars, kvars, rvars, tvars, qvars, dvars, ivars>>
notW == <<fvars, cvars, svars, kvars, rvars, tvars, qvars, dvars, ivars>>
notK == <<fvars, cvars, svars, wvars, rvars, tvars, qvars, dvars, ivars>>
notR == <<fvars, cvars, svars, wvars, kvars, tvars, qvars, dvars, ivars>>
notT == <<fvars, cvars, svars, wvars, kvars, rvars, qvars, dvars, ivars>>
notQ == <<fvars, cvars, svars, wvars, kvars, rvars, tvars, dvars, ivars>>
notD == <<fvars, cvars, svars, wvars, kvars, rvars, tvars, qvars, ivars>>
notI == <<fvars, cvars, svars, wvars, kvars, rvars, tvars, qvars, dvars>>

\* ------------------------------------------------------------------ bounds

\* Longest short history enumerated by Init (besides the 200-candle scenario).
MaxCandles == 16

\* ------------------------------------------------------- program constants

TotalSteps == 30        \* for step in range(1, 31)
HighConf == 10200       \* 0.85
LowConf == 7200         \* 0.60
DecaySpan == 3000       \* 0.25
DecayDen == 30          \* ... / 30
Cent == 120             \* 0.01, the grain of round(confidence, 2)
LookbackW == 14         \* 'ATR_14': the longest lookback of the modelled features
NumLags == 5            \* 'close_lag_1' .. 'close_lag_5'

\* ------------------------------------------------------------------ helpers

Max2(a, b) == IF a >= b THEN a ELSE b
Min2(a, b) == IF a <= b THEN a ELSE b
Abs(a) == IF a >= 0 THEN a ELSE -a

\* Truncate a price to a whole price (an even number of halves).
Whole(x) == 2 * (x \div 2)

RECURSIVE SumSeq(_)
SumSeq(s) == IF s = <<>> THEN 0 ELSE Head(s) + SumSeq(Tail(s))

\* ---------------------------------------------------------- history series

\* A series of n candles whose closes change by `trend` per candle and end at
\* `last`; each candle opens on the previous close and overshoots its body by
\* spread / 2 on both sides.
Ramp(n, last, trend, spread) ==
    [i \in 1..n |->
        LET c == last - (n - i) * trend
            o == c - trend
        IN  [t |-> i, open |-> o, close |-> c,
             high |-> Max2(o, c) + spread \div 2,
             low |-> Min2(o, c) - spread \div 2,
             volume |-> 10]]

\* ---------------------------------------------------------- Feature Builder

TrueRange(c, prevClose) ==
    Max2(c.high - c.low, Max2(Abs(c.high - prevClose), Abs(c.low - prevClose)))

\* Number of candles preceding asOfIndex (indices are 1-based).
Leading(asOfIndex) == Max2(asOfIndex - 1, 0)

\* Mutant: the boundary itself is refused.
HasHistoryStrict(cs, asOfIndex) ==
    asOfIndex >= 1 /\ asOfIndex <= Len(cs) /\ Leading(asOfIndex) > LookbackW

HasHistory(cs, asOfIndex) ==
    asOfIndex >= 1 /\ asOfIndex <= Len(cs) /\ Leading(asOfIndex) >= LookbackW

\* buildFeatures(candles, asOfIndex), defined when HasHistory holds: the raw
\* candle, the lagged closes and the average true range of the trailing
\* LookbackW candles.
BuildFeatures(cs, asOfIndex) ==
    LET c == cs[asOfIndex]
        trs == [k \in 1..LookbackW |->
                   TrueRange(cs[asOfIndex - LookbackW + k],
                             cs[asOfIndex - LookbackW + k - 1].close)]
    IN  [open |-> c.open, high |-> c.high, low |-> c.low, close |-> c.close,
         volume |-> c.volume, t |-> c.t,
         close_lag |-> [k \in 1..NumLags |-> cs[asOfIndex - k].close],
         ATR_14 |-> Whole(SumSeq(trs) \div LookbackW)]

\* update_features(current, candle): the predicted candle becomes the current
\* one, the lagged closes shift by one and the average true range is smoothed
\* over the predicted candle's true range.
UpdateFeatures(cur, cndl) ==
    LET tr == Max2(cndl.high - cndl.low,
                   Max2(Abs(cndl.high - cur.close), Abs(cndl.low - cur.close)))
    IN  [cur EXCEPT
            !.open = cndl.open, !.high = cndl.high, !.low = cndl.low,
            !.close = cndl.close, !.t = cur.t + 1,
            !.close_lag = [k \in 1..NumLags |->
                              IF k = 1 THEN cur.close ELSE cur.close_lag[k - 1]],
            !.ATR_14 = Whole(((LookbackW - 1) * cur.ATR_14 + tr) \div LookbackW)]

\* ------------------------------------------------------------- predictors

Models == {"lastPlusOne", "lastMinusOne", "persistence", "momentum", "meanRevert"}

\* model.predict([current])[0] for the trained models enumerated here, each a
\* pure function of the feature vector.
PredictNext(model, f) ==
    CASE model = "lastPlusOne" -> f.close + 2
      [] model = "lastMinusOne" -> f.close - 2
      [] model = "persistence" -> f.close
      [] model = "momentum" -> f.close + (f.close - f.close_lag[1])
      [] model = "meanRevert" -> f.close_lag[1]

\* Mutant: the spread is taken around zero (the mean is not subtracted).
EnsembleRawMoment(members, f) ==
    LET p == [i \in 1..Len(members) |-> PredictNext(members[i].model, f)]
        mean == SumSeq([i \in 1..Len(members) |-> members[i].weight * p[i]]) \div 100
    IN  [mean |-> mean,
         variance100 |->
             SumSeq([i \in 1..Len(members) |-> members[i].weight * p[i] * p[i]])]

\* Ensemble Predictor: weights are percentages summing to 100.  The weighted
\* mean, and 100 times the weighted variance across members.
EnsemblePredictNext(members, f) ==
    LET p == [i \in 1..Len(members) |-> PredictNext(members[i].model, f)]
        mean == SumSeq([i \in 1..Len(members) |-> members[i].weight * p[i]]) \div 100
    IN  [mean |-> mean,
         variance100 |->
             SumSeq([i \in 1..Len(members) |->
                        members[i].weight * (p[i] - mean) * (p[i] - mean)])]

Single(m) == [kind |-> "single", model |-> m, members |-> <<>>]
Ensemble(ms) == [kind |-> "ensemble", model |-> "none", members |-> ms]
Member(m, w) == [model |-> m, weight |-> w]

Predictors ==
    {Single(m) : m \in Models} \cup
    {Ensemble(<<>>),
     Ensemble(<<Member("lastPlusOne", 100)>>),
     Ensemble(<<Member("meanRevert", 100)>>),
     Ensemble(<<Member("lastPlusOne", 50), Member("persistence", 50)>>),
     Ensemble(<<Member("lastPlusOne", 40), Member("lastMinusOne", 40),
                Member("persistence", 20)>>)}

\* The predictor fails on its own account (besides a model inference failure,
\* which can strike at any step).
PredictorBroken(pr) == pr.kind = "ensemble" /\ pr.members = <<>>

Predict(pr, f) ==
    IF pr.kind = "single" THEN PredictNext(pr.model, f)
    ELSE EnsemblePredictNext(pr.members, f).mean

\* ---------------------------------------------------- Confidence Estimator

\* Mutant: the decay is added instead of subtracted.
ConfidenceRising(s) ==
    Max2(LowConf, HighConf + ((s - 1) * DecaySpan) \div DecayDen)

\* confidence = 0.85 - ((step - 1) * 0.25 / 30); confidence = max(0.60, confidence)
ConfidenceForStep(s) ==
    Max2(LowConf, HighConf - ((s - 1) * DecaySpan) \div DecayDen)

\* round(confidence, 2).  A value half way between two hundredths goes where
\* the binary representation of the float happens to lie (0.825 -> 0.82,
\* 0.775 -> 0.78): `up` is that outcome.
Round2(x, up) ==
    LET r == x % Cent
    IN  IF 2 * r < Cent THEN x - r
        ELSE IF 2 * r > Cent THEN x - r + Cent
        ELSE IF up THEN x - r + Cent ELSE x - r

\* ---------------------------------------------------- Forecast Orchestrator

\* direction = 'up' if next_close > current['close'] else 'down'
Direction(nextClose, curClose) == IF nextClose > curClose THEN "up" ELSE "down"

\* Mutant: the whole volatility is added to the high.
EstimateOHLCFullSpread(nextClose, cur) ==
    LET volatility == cur.ATR_14
    IN  [open |-> cur.close,
         high |-> nextClose + volatility,
         low |-> nextClose - volatility \div 2,
         close |-> nextClose]

\* next_open, next_high, next_low from the predicted close and current.
EstimateOHLC(nextClose, cur) ==
    LET volatility == cur.ATR_14
    IN  [open |-> cur.close,
         high |-> nextClose + volatility \div 2,
         low |-> nextClose - volatility \div 2,
         close |-> nextClose]

\* calculate_timestamp(step): one timeframe unit per step after the history.
CalculateTimestamp(cs, s) == Len(cs) + s

\* ================================================ candle history provider

\* ------------------------------------------------------------------ bounds

MaxFeed == 4        \* raw aggregates Polygon.io comes to hold
MaxLimit == 3       \* largest small `limit` / `count` requested
PageSize == 2       \* aggregates per page of a paginated answer (limit=5000)
MaxDaySlack == 1    \* candles the whole-day `from` date adds to the range

\* ------------------------------------------------------- program constants

DefaultCount == 200     \* count: number = 200, and the route's default limit
RouteMaxLimit == 1000   \* limit > 1000 is refused

SUPPORTED_TIMEFRAMES == {"1h", "4h", "1d", "1w", "1m"}

Null == [kind |-> "null"]

\* getFreshCandlesCacheKey: `fresh_candles:${ticker}:${timeframe}`
GetFreshCandlesCacheKey(ticker, timeframe) == <<"fresh_candles", ticker, timeframe>>

CacheKeys == {GetFreshCandlesCacheKey("X:BTCUSD", "1h")}

\* ------------------------------------------------------------ data cleaner

\* Step 1 of cleanOHLCVData: new Date(candle.t) and the renamed fields.
ToCandle(raw) ==
    [timestamp |-> [kind |-> "Date", ms |-> raw.t],
     open |-> raw.o, high |-> raw.h, low |-> raw.l, close |-> raw.c,
     volume |-> raw.v, vwap |-> raw.vw, transactions |-> raw.n]

RECURSIVE RemoveDuplicatesFrom(_, _)
RemoveDuplicatesFrom(cs, seen) ==
    IF cs = <<>> THEN <<>>
    ELSE IF Head(cs).timestamp.ms \in seen
         THEN RemoveDuplicatesFrom(Tail(cs), seen)
         ELSE <<Head(cs)>> \o
              RemoveDuplicatesFrom(Tail(cs), seen \cup {Head(cs).timestamp.ms})

\* removeDuplicates: keeps the first occurrence of a timestamp.
RemoveDuplicates(cs) == RemoveDuplicatesFrom(cs, {})

\* A field of an aggregate holds a number or is missing (undefined), and
\* Math.max / Math.min of a missing value is NaN.  The two are encoded as
\* integers no price, volume or count takes.
Undefined == -999998
NaN == -999999

NotANumber(x) == x \in {Undefined, NaN}

\* x < y, x <= y: false as soon as one side is undefined or NaN.
JsLess(x, y) == ~NotANumber(x) /\ ~NotANumber(y) /\ x < y
JsLessEq(x, y) == ~NotANumber(x) /\ ~NotANumber(y) /\ x <= y

\* Math.max / Math.min of four values
Max4(a, b, c, d) ==
    IF \E x \in {a, b, c, d} : NotANumber(x) THEN NaN
    ELSE Max2(Max2(a, b), Max2(c, d))
Min4(a, b, c, d) ==
    IF \E x \in {a, b, c, d} : NotANumber(x) THEN NaN
    ELSE Min2(Min2(a, b), Min2(c, d))

\* validateCandles: drop non-positive prices and negative volumes, then make
\* high the highest and low the lowest of the four prices.
ValidateCandles(cs) ==
    LET kept == SelectSeq(cs, LAMBDA c :
                    ~(JsLessEq(c.open, 0) \/ JsLessEq(c.high, 0)
                      \/ JsLessEq(c.low, 0) \/ JsLessEq(c.close, 0))
                    /\ ~JsLess(c.volume, 0))
    IN  [i \in 1..Len(kept) |->
            [kept[i] EXCEPT
                !.high = Max4(kept[i].open, kept[i].high, kept[i].low, kept[i].close),
                !.low = Min4(kept[i].open, kept[i].high, kept[i].low, kept[i].close)]]

\* !x: zero, NaN and undefined are falsy.
Falsy(x) == x = 0 \/ NotANumber(x)

RECURSIVE ForwardFillFrom(_, _)
ForwardFillFrom(filled, rest) ==
    IF rest = <<>> THEN filled
    ELSE LET cur == Head(rest)
             previous == filled[Len(filled)]
         IN  ForwardFillFrom(
                 Append(filled,
                     IF Falsy(cur.open) \/ Falsy(cur.high) \/ Falsy(cur.low)
                        \/ Falsy(cur.close)
                     THEN [cur EXCEPT !.open = previous.close,
                                      !.high = previous.close,
                                      !.low = previous.close,
                                      !.close = previous.close]
                     ELSE cur),
                 Tail(rest))

\* forwardFillMissingValues
ForwardFillMissingValues(cs) ==
    IF cs = <<>> THEN cs ELSE ForwardFillFrom(<<Head(cs)>>, Tail(cs))

\* Array.prototype.sort with a numeric comparator is stable: an element goes
\* after every element that does not have to follow it.  `descending` selects
\* the comparator b.timestamp.getTime() - a.timestamp.getTime().
ComesBefore(a, b, descending) ==
    IF descending THEN a.timestamp.ms > b.timestamp.ms
    ELSE a.timestamp.ms < b.timestamp.ms

RECURSIVE InsertSorted(_, _, _)
InsertSorted(sorted, c, descending) ==
    IF sorted = <<>> THEN <<c>>
    ELSE IF ComesBefore(c, Head(sorted), descending) THEN <<c>> \o sorted
         ELSE <<Head(sorted)>> \o InsertSorted(Tail(sorted), c, descending)

RECURSIVE SortByTimestamp(_, _)
SortByTimestamp(cs, descending) ==
    IF cs = <<>> THEN <<>>
    ELSE InsertSorted(SortByTimestamp(SubSeq(cs, 1, Len(cs) - 1), descending),
                      cs[Len(cs)], descending)

\* (a, b) => a.timestamp.getTime() - b.timestamp.getTime()
SortAscending(cs) == SortByTimestamp(cs, FALSE)

\* cleanOHLCVData
CleanOHLCVData(rawData) ==
    IF rawData = <<>> THEN <<>>
    ELSE SortAscending(
             ForwardFillMissingValues(
                 ValidateCandles(
                     RemoveDuplicates([i \in 1..Len(rawData) |-> ToCandle(rawData[i])]))))

\* isValidCandle
IsValidCandle(c) ==
    /\ JsLess(0, c.open) /\ JsLess(0, c.high) /\ JsLess(0, c.low) /\ JsLess(0, c.close)
    /\ JsLessEq(0, c.volume)
    /\ JsLessEq(c.low, c.high)
    /\ JsLessEq(c.open, c.high) /\ JsLessEq(c.close, c.high)
    /\ JsLessEq(c.low, c.open) /\ JsLessEq(c.low, c.close)

\* ------------------------------------------------------------- REST client

\* Candles covered by calculateDateRange(timeframe, count): count * 1.2
\* candles back from now, rounded up.
RangeCandles(count) == (12 * count + 9) \div 10

\* The aggregates Polygon.io answers for from..to, oldest first (sort=asc):
\* those no older than the range, `slack` further candles being covered by the
\* whole-day `from` date.
InRange(feed, now, count, slack) ==
    SelectSeq(feed, LAMBDA r : r.t > now - RangeCandles(count) - slack)

\* The pages of a paginated answer, followed through next_url.
RECURSIVE Pages(_)
Pages(rs) ==
    IF Len(rs) <= PageSize THEN <<rs>>
    ELSE <<SubSeq(rs, 1, PageSize)>> \o Pages(SubSeq(rs, PageSize + 1, Len(rs)))

RECURSIVE CleanAndConcat(_)
CleanAndConcat(pages) ==
    IF pages = <<>> THEN <<>>
    ELSE (IF Len(Head(pages)) > 0 THEN CleanOHLCVData(Head(pages)) ELSE <<>>)
         \o CleanAndConcat(Tail(pages))

\* getAggregates: every page is cleaned on its own and appended.
GetAggregates(rs) == CleanAndConcat(Pages(rs))

\* ------------------------------------------------------------------- cache

\* JSON.parse(JSON.stringify(value)): a Date is written as its ISO string and
\* read back as a string.
JsonRoundTrip(cs) ==
    [i \in 1..Len(cs) |->
        [cs[i] EXCEPT !.timestamp = [kind |-> "string", ms |-> cs[i].timestamp.ms]]]

\* ------------------------------------------------------ getFreshCandles

\* (a, b) => b.timestamp.getTime() - a.timestamp.getTime()
SortDescending(cs) == SortByTimestamp(cs, TRUE)

\* cached.slice(-count)
SliceLast(cs, count) ==
    IF count >= Len(cs) THEN cs ELSE SubSeq(cs, Len(cs) - count + 1, Len(cs))

\* sortedCandles.slice(0, count)
SliceFirst(cs, count) == SubSeq(cs, 1, Min2(count, Len(cs)))

NoCall == [outcome |-> "none", source |-> "none", count |-> 0,
           available |-> <<>>, result |-> <<>>]
NoResponse == [status |-> 0, candles |-> <<>>, count |-> 0]

\* getFreshCandles(ticker, timeframe, count) on the cache value `cached`, with
\* the aggregates Polygon.io would answer (`fetched`) and whether the request
\* to it succeeds: what is returned, and what the cache key holds afterwards.
GetFreshCandles(cached, count, fetched, fetchOk) ==
    IF cached # Null /\ Len(cached.value) >= count
    THEN [outcome |-> "ok", source |-> "cache", count |-> count,
          available |-> cached.value,
          result |-> SliceLast(cached.value, count),
          cacheAfter |-> cached]
    ELSE IF ~fetchOk
    THEN [outcome |-> "throw", source |-> "polygon", count |-> count,
          available |-> <<>>, result |-> <<>>, cacheAfter |-> cached]
    ELSE LET got == GetAggregates(fetched)
             recentCandles == SliceFirst(SortDescending(got), count)
         IN  IF Len(got) = 0
             THEN [outcome |-> "ok", source |-> "polygon", count |-> count,
                   available |-> got, result |-> <<>>, cacheAfter |-> cached]
             ELSE [outcome |-> "ok", source |-> "polygon", count |-> count,
                   available |-> got, result |-> recentCandles,
                   cacheAfter |-> [kind |-> "json",
                                   value |-> JsonRoundTrip(recentCandles)]]

NoPrice == [called |-> FALSE, price |-> Null]

\* getLatestPrice: candles[0].close of getFreshCandles(ticker, timeframe, 1),
\* null when that is empty or throws.
GetLatestPrice(cached, fetched, fetchOk) ==
    LET cs == GetFreshCandles(cached, 1, fetched, fetchOk)
    IN  [candles |-> cs,
         price |-> IF cs.outcome = "ok" /\ Len(cs.result) > 0
                   THEN [kind |-> "number", value |-> cs.result[1].close]
                   ELSE Null]

\* ================================================= symbol search endpoint
\* GET /api/symbols/search (app/api/symbols/search/route.ts).  Strings are
\* sequences of characters, so that toLowerCase, trim and ILIKE are computed.

MaxInFlight == 2        \* route invocations that may overlap

CACHE_TTL_SECONDS == 300
SearchDefaultLimit == 20
SearchMaxLimit == 100

LowerChar(ch) ==
    CASE ch = "B" -> "b" [] ch = "T" -> "t" [] ch = "C" -> "c"
      [] ch = "W" -> "w" [] OTHER -> ch

\* String.prototype.toLowerCase
ToLowerCase(str) == [i \in 1..Len(str) |-> LowerChar(str[i])]

\* query.trim().length === 0
TrimIsEmpty(str) == \A i \in 1..Len(str) : str[i] = " "

\* column ILIKE '%query%'
ILike(column, query) ==
    LET col == ToLowerCase(column)
        pat == ToLowerCase(query)
    IN  \E i \in 0..(Len(col) - Len(pat)) :
            SubSeq(col, i + 1, i + Len(pat)) = pat

BTCTicker == <<"B", "T", "C">>
WBTCTicker == <<"W", "B", "T", "C">>

\* one row of the symbols table; lastUpdated is a timestamp column
SymbolRow(ticker, isActive) ==
    [ticker |-> ticker, name |-> ticker,
     volumeRank |-> Len(ticker), isActive |-> isActive,
     lastUpdated |-> [kind |-> "Date", ms |-> 0]]

RECURSIVE OrderByVolumeRank(_)
OrderByVolumeRank(rows) ==
    IF rows = {} THEN <<>>
    ELSE LET first == CHOOSE r \in rows :
                          \A o \in rows : r.volumeRank <= o.volumeRank
         IN  <<first>> \o OrderByVolumeRank(rows \ {first})

\* searchSymbols(query, limit)
SearchSymbols(table, query, limit) ==
    LET matching == {r \in table :
                        /\ r.isActive
                        /\ ILike(r.ticker, query) \/ ILike(r.name, query)}
    IN  SliceFirst(OrderByVolumeRank(matching), limit)

\* JSON.stringify of a symbol row: a Date becomes its ISO string; parsing the
\* text gives the string back.
SymbolToJson(row) ==
    [row EXCEPT !.lastUpdated = [kind |-> "string", ms |-> row.lastUpdated.ms]]

SymbolsToJson(rows) == [i \in 1..Len(rows) |-> SymbolToJson(rows[i])]

\* Mutant: the key is built from the query as typed.
SearchCacheKeyAsTyped(query, limit) == <<"symbol_search", query, limit>>

\* `symbol_search:${query.toLowerCase()}:${limit}`
SearchCacheKey(query, limit) == <<"symbol_search", ToLowerCase(query), limit>>

\* searchParams.get('q'): absent, or the text
Queries ==
    {Null} \cup
    {[kind |-> "text", text |-> t] :
        t \in {<<" ">>, <<"B", "T">>, <<"b", "t">>}}

SearchLimitParams ==
    {[kind |-> "absent", n |-> 0]} \cup {[kind |-> "num", n |-> k] : k \in {0, 101}}

SearchParseLimit(limitParam) ==
    IF limitParam.kind = "absent" THEN SearchDefaultLimit ELSE limitParam.n

SearchKeys ==
    {<<"symbol_search", q.text, l>> :
        q \in Queries \ {Null}, l \in {SearchDefaultLimit}}

\* the request parameters as the caching contract sees them
ContractKeys ==
    {<<ToLowerCase(q.text), l>> : q \in Queries \ {Null}, l \in {SearchDefaultLimit}}

\* redis.setex(key, ttlSeconds, JSON.stringify(value))
SetCache(cache, key, value, ttlSeconds) ==
    [cache EXCEPT ![key] = [kind |-> "json", value |-> value, ttl |-> ttlSeconds]]

\* redis.get(key) and JSON.parse: null for a key that is absent or has expired
GetCache(cache, key) == IF cache[key] = Null THEN Null ELSE cache[key].value

\* Redis after `seconds` more seconds: a key whose time to live ran out is gone.
ExpireKeys(cache, seconds) ==
    [k \in DOMAIN cache |->
        IF cache[k] = Null \/ cache[k].ttl <= seconds THEN Null
        ELSE [cache[k] EXCEPT !.ttl = @ - seconds]]

\* An answer older than the time to live is remembered as stale only.
Stale == [kind |-> "stale"]

Older(answer, seconds) ==
    IF answer = Null \/ answer = Stale THEN answer
    ELSE IF answer.age + seconds >= CACHE_TTL_SECONDS THEN Stale
    ELSE [answer EXCEPT !.age = @ + seconds]

NoSearchResponse ==
    [status |-> 0, symbols |-> <<>>, count |-> 0, cached |-> FALSE,
     queriedDb |-> FALSE, after |-> Null]

SearchError(status, queriedDb) ==
    [NoSearchResponse EXCEPT !.status = status, !.queriedDb = queriedDb]

\* The search endpoint at rest (while another subsystem is explored).
SearchOff ==
    /\ symbolsTable = {}
    /\ searchCache = [k \in SearchKeys |-> Null]
    /\ handlers = EmptyBag
    /\ lastMiss = [k \in ContractKeys |-> Null]
    /\ searchResponse = NoSearchResponse

\* ============================================== PolygonWebSocketServer
\* lib/polygon/websocket-server.ts.  A handler is a function from the world
\* (the singleton's fields, the sockets, the orphaned timeouts) to the world.

MaxSockets == 3         \* upstream sockets that can still emit events
MaxSubscribers == 2     \* SSE clients
MaxTimers == 2          \* pending timeouts of one kind

GRACE_PERIOD_S == 30    \* setTimeout(.., 30000)

NoSocket == [readyState |-> "none", authSent |-> FALSE]

NewServer == [ws |-> 0, state |-> "disconnected", subscriberCount |-> 0,
              reconnectTimer |-> "none", heartbeatTimer |-> FALSE]

World(srv, socks, orphans) == [srv |-> srv, socks |-> socks, orphans |-> orphans]

\* a socket that is connecting or open
Live(sock) == sock.readyState \in {"CONNECTING", "OPEN"}

\* A slot is free when it holds no socket, or a closed one that only this.ws
\* still refers to and connect() is about to replace.
FreeSlots(w) ==
    {i \in DOMAIN w.socks : w.socks[i].readyState \in {"none", "CLOSED"}}

\* connect(); POLYGON_API_KEY is configured
Connect(w) ==
    IF w.srv.state \in {"connected", "connecting", "authenticated"} THEN w
    ELSE LET i == CHOOSE j \in FreeSlots(w) : \A k \in FreeSlots(w) : j <= k
         IN  [w EXCEPT !.srv.state = "connecting",
                       !.srv.ws = i,
                       !.socks[i] = [readyState |-> "CONNECTING", authSent |-> FALSE]]

\* ws.close(): starts the closing handshake of a socket that is not closed yet
CloseSocket(sock) ==
    IF sock.readyState \in {"CONNECTING", "OPEN"}
    THEN [sock EXCEPT !.readyState = "CLOSING"]
    ELSE sock

\* disconnect()
Disconnect(w) ==
    [w EXCEPT
        !.srv.reconnectTimer = "none",
        !.srv.heartbeatTimer = FALSE,
        !.srv.ws = 0,
        !.srv.state = "disconnected",
        !.socks = IF w.srv.ws = 0 THEN w.socks
                  ELSE IF w.socks[w.srv.ws].readyState = "CLOSED"
                  THEN [w.socks EXCEPT ![w.srv.ws] = NoSocket]
                  ELSE [w.socks EXCEPT ![w.srv.ws] = CloseSocket(@)]]

\* send(message): dropped unless this.ws is open
SendAuth(w) ==
    IF w.srv.ws # 0 /\ w.socks[w.srv.ws].readyState = "OPEN"
    THEN [w EXCEPT !.socks[w.srv.ws].authSent = TRUE]
    ELSE w

\* handleOpen
HandleOpen(w) ==
    LET connected == [w EXCEPT !.srv.state = "connected"]
    IN  [SendAuth(connected) EXCEPT !.srv.heartbeatTimer = TRUE]

\* handleClose
HandleClose(w) ==
    LET closed == [w EXCEPT !.srv.state = "disconnected",
                            !.srv.heartbeatTimer = FALSE]
    IN  IF w.srv.subscriberCount > 0
        THEN [closed EXCEPT
                !.srv.reconnectTimer = "pending",
                !.orphans = IF w.srv.reconnectTimer = "pending" THEN @ + 1 ELSE @]
        ELSE closed

\* addSubscriber()
AddSubscriber(w) ==
    LET counted == [w EXCEPT !.srv.subscriberCount = @ + 1]
    IN  IF counted.srv.subscriberCount = 1 /\ counted.srv.state = "disconnected"
        THEN Connect(counted)
        ELSE counted

\* A closed socket emits nothing more: it is forgotten once this.ws lets go of it.
Forget(w) ==
    [w EXCEPT !.socks = [i \in DOMAIN w.socks |->
        IF w.socks[i].readyState = "CLOSED" /\ w.srv.ws # i THEN NoSocket
        ELSE w.socks[i]]]

\* connect() called in world w finds a slot for the socket it creates
CanConnect(w) == w.srv.state = "disconnected" => FreeSlots(w) # {}

\* The server at rest (while another subsystem is explored).
ServerOff ==
    /\ server = NewServer
    /\ upstream = [i \in 1..MaxSockets |-> NoSocket]
    /\ orphanReconnects = 0
    /\ graceTimers = <<>>
    /\ quiet = 0

\* ============================================== PolygonWebSocketClient
\* lib/polygon/websocket-client.ts (the browser-side client).

MaxClientSockets == 2   \* sockets of the client that can still emit events
MaxBuffer == 2          \* messages the exploration lets messageBuffer hold

ClientTickers == {"X:BTCUSD"}

AuthMessage == [action |-> "auth", params |-> {"POLYGON_API_KEY"}]
SubscribeMessage(tickers) == [action |-> "subscribe", params |-> tickers]
UnsubscribeMessage(tickers) == [action |-> "unsubscribe", params |-> tickers]

NoClientSocket ==
    [readyState |-> "none", failed |-> FALSE, transmitted |-> {}, owesAuth |-> FALSE]

ClosedClientSocket == [NoClientSocket EXCEPT !.readyState = "CLOSED"]

NewClient ==
    [ws |-> 0, state |-> "disconnected", subscriptions |-> {},
     reconnectTimer |-> FALSE, heartbeatTimer |-> FALSE, messageBuffer |-> <<>>]

ClientWorld(c, socks, timeouts) == [c |-> c, socks |-> socks, timeouts |-> timeouts]

ClientFreeSlots(w) ==
    {i \in DOMAIN w.socks : w.socks[i].readyState \in {"none", "CLOSED"}}

\* connect(); POLYGON_API_KEY is configured
ClientConnect(w) ==
    IF w.c.state \in {"connected", "connecting"} THEN w
    ELSE LET i == CHOOSE j \in ClientFreeSlots(w) :
                      \A k \in ClientFreeSlots(w) : j <= k
         IN  [w EXCEPT !.c.state = "connecting",
                       !.c.ws = i,
                       !.socks[i] = [NoClientSocket EXCEPT !.readyState = "CONNECTING"]]

ClientCanConnect(w) ==
    w.c.state \notin {"connected", "connecting"} => ClientFreeSlots(w) # {}

\* disconnect()
ClientDisconnect(w) ==
    [w EXCEPT
        !.timeouts = IF w.c.reconnectTimer THEN @ - 1 ELSE @,
        !.c.reconnectTimer = FALSE,
        !.c.heartbeatTimer = FALSE,
        !.c.ws = 0,
        !.c.state = "disconnected",
        !.socks = IF w.c.ws = 0 THEN w.socks
                  ELSE IF w.socks[w.c.ws].readyState \in {"CONNECTING", "OPEN"}
                  THEN [w.socks EXCEPT ![w.c.ws].readyState = "CLOSING"]
                  ELSE w.socks]

\* this.ws.send(text): the text goes out on an open socket
Transmit(w, message) ==
    IF w.socks[w.c.ws].readyState = "OPEN"
    THEN [w EXCEPT !.socks[w.c.ws].transmitted = @ \cup {message},
                   !.socks[w.c.ws].owesAuth = @ \/ message = AuthMessage]
    ELSE w

\* send(message): buffered unless the client is authenticated
ClientSend(w, message) ==
    IF w.c.ws = 0 \/ w.c.state # "authenticated"
    THEN [w EXCEPT !.c.messageBuffer = Append(@, message)]
    ELSE Transmit(w, message)

\* subscribe(ticker)
ClientSubscribe(w, tickers) ==
    ClientSend([w EXCEPT !.c.subscriptions = @ \cup tickers],
               SubscribeMessage(tickers))

\* unsubscribe(ticker)
ClientUnsubscribe(w, tickers) ==
    ClientSend([w EXCEPT !.c.subscriptions = @ \ tickers],
               UnsubscribeMessage(tickers))

RECURSIVE TransmitAll(_, _)
TransmitAll(w, messages) ==
    IF messages = <<>> THEN w
    ELSE TransmitAll(Transmit(w, Head(messages)), Tail(messages))

\* flushMessageBuffer(), called in state AUTHENTICATED: send() on a socket that
\* is still connecting throws and leaves the buffer as it is.
FlushMessageBuffer(w) ==
    IF w.c.messageBuffer = <<>> THEN w
    ELSE IF w.c.ws = 0 THEN [w EXCEPT !.c.messageBuffer = <<>>]
    ELSE IF w.socks[w.c.ws].readyState = "CONNECTING" THEN w
    ELSE [TransmitAll(w, w.c.messageBuffer) EXCEPT !.c.messageBuffer = <<>>]

\* handleOpen
ClientHandleOpen(w) ==
    LET connected == [w EXCEPT !.c.state = "connected"]
    IN  [ClientSend(connected, AuthMessage) EXCEPT !.c.heartbeatTimer = TRUE]

\* handleStatusMessage
ClientHandleStatus(w, status) ==
    IF status = "auth_success"
    THEN LET authenticated == [w EXCEPT !.c.state = "authenticated"]
             resubscribed ==
                 IF w.c.subscriptions # {}
                 THEN ClientSubscribe(authenticated, w.c.subscriptions)
                 ELSE authenticated
         IN  FlushMessageBuffer(resubscribed)
    ELSE IF status = "auth_failed"
    THEN [w EXCEPT !.c.state = "error"]
    ELSE w

\* scheduleReconnect
ScheduleReconnect(w) ==
    IF w.c.reconnectTimer THEN w
    ELSE [w EXCEPT !.c.state = "reconnecting",
                   !.c.reconnectTimer = TRUE,
                   !.timeouts = @ + 1]

\* handleClose
ClientHandleClose(w, wasClean) ==
    LET closed == [w EXCEPT !.c.heartbeatTimer = FALSE,
                            !.c.state = "disconnected"]
    IN  IF ~wasClean THEN ScheduleReconnect(closed) ELSE closed

\* A closed socket emits nothing more: it is forgotten once this.ws lets go of it.
ClientForget(w) ==
    [w EXCEPT !.socks = [i \in DOMAIN w.socks |->
        IF w.socks[i].readyState = "CLOSED" /\ w.c.ws # i THEN NoClientSocket
        ELSE w.socks[i]]]

\* The client at rest (while another subsystem is explored).
ClientOff ==
    /\ client = NewClient
    /\ clientSockets = [i \in 1..MaxClientSockets |-> NoClientSocket]
    /\ clientTimeouts = 0
    /\ recovering = FALSE

\* ================================================== useRealtimeStream hook

MaxRetryCount == 4      \* largest retryCountRef.current explored (the source never caps it)
MaxOrphanRetries == 1   \* reconnect timeouts pending beside the one reconnectTimeoutRef holds

\* Stop after 3 failed attempts.
MAX_RETRIES == 3

\* useState / useRef initial values.  queued is the status the next render
\* commits ("none" when no render is due); es is the EventSource eventSourceRef holds
\* ("none" for null); every close() in the hook is paired with clearing the
\* ref, and a closed EventSource dispatches no event.  timeout is TRUE while
\* the timeout reconnectTimeoutRef holds is pending.
NewStream ==
    [status |-> "disconnected", queued |-> "none", effects |-> FALSE,
     es |-> "none", isConnecting |-> FALSE, retryCount |-> 0, timeout |-> FALSE]

\* setStatus(v): the queued updates are applied at the next render, the last
\* one wins, and a result equal to the committed state renders nothing.
SetStatus(h, v) == [h EXCEPT !.queued = IF v = h.status THEN "none" ELSE v]

\* connect() with a ticker.
StreamConnect(h) ==
    IF h.es # "none" \/ h.isConnecting THEN h
    ELSE SetStatus([h EXCEPT !.isConnecting = TRUE, !.es = "connecting"], "connecting")

\* whether connect() creates an EventSource
StreamCreates(h) == h.es = "none" /\ ~h.isConnecting

\* disconnect()
StreamDisconnect(h) ==
    SetStatus([h EXCEPT !.timeout = FALSE, !.es = "none", !.isConnecting = FALSE,
                        !.retryCount = 0], "disconnected")

\* eventSource.onopen
StreamOnOpen(h) ==
    SetStatus([h EXCEPT !.es = "open", !.isConnecting = FALSE, !.retryCount = 0],
              "connected")

\* eventSource.onerror; orphans counts the pending timeouts whose handle the
\* new setTimeout overwrites.
StreamOnError(h, orphans) ==
    LET closed == SetStatus([h EXCEPT !.isConnecting = FALSE, !.es = "none",
                                      !.retryCount = h.retryCount + 1], "disconnected")
    IN  IF closed.retryCount >= MAX_RETRIES
        THEN [h |-> closed, orphans |-> orphans]
        ELSE [h |-> [closed EXCEPT !.timeout = TRUE],
              orphans |-> IF h.timeout THEN orphans + 1 ELSE orphans]

\* the auto-connect effect after a commit that changed status: the cleanup of
\* the previous effect, then the effect body with the committed status.
StreamEffect(h, auto) ==
    LET cleanedUp == [StreamDisconnect(h) EXCEPT !.effects = FALSE]
    IN  IF auto /\ h.status = "disconnected" THEN StreamConnect(cleanedUp) ELSE cleanedUp

\* The hook at rest (while another subsystem is explored).
StreamOff ==
    /\ stream = NewStream
    /\ autoConnect = FALSE
    /\ orphanRetries = 0
    /\ errors = 0
    /\ made = "none"

\* ====================================================== throttle (useChart)

MaxCalls == 3       \* calls of the throttled function
MaxTicks == 4       \* advances of the clock

\* throttle(.., 1000): 1 second throttle
THROTTLE_DELAY == 1000

\* Date.now() when the hook mounts: some moment after 1970-01-01T00:00:01Z
\* (the current epoch milliseconds do not fit TLC's 32-bit integers).
MountTime == 5000

\* The milliseconds that pass between two events.
Elapses == {1, 999, 1000}

\* Mutant: the boundary is still inside the window.
ThrottleAllowsAfter(now, lastCall, delay) == now - lastCall > delay

\* if (now - lastCall >= delay)
ThrottleAllows(now, lastCall, delay) == now - lastCall >= delay

\* throttle(func, delay): the closure's state
Throttle == [lastCall |-> 0]

\* the returned function called at `now`: the closure after the call, and
\* whether func ran
ThrottledCall(t, now, delay) ==
    IF ThrottleAllows(now, t.lastCall, delay)
    THEN [closure |-> [t EXCEPT !.lastCall = now], ran |-> TRUE]
    ELSE [closure |-> t, ran |-> FALSE]

\* The wrapper at rest (while another subsystem is explored).
ThrottleOff ==
    /\ clock = MountTime
    /\ throttled = Throttle
    /\ ticks = 0
    /\ calls = <<>>
    /\ runs = <<>>

\* ========================================================== fetchWithRetry

MaxFetchRetries == 4    \* largest `retries` argument enumerated

\* retries: number = 3
DefaultRetries == 3

\* The backoffMs arguments of the callers (the default 1000, and 500).
Backoffs == {500, 1000}

\* How one request can end: a response with ok status and a JSON body; an ok
\* response whose body does not parse (response.json() rejects); a 4xx or a
\* 5xx response; fetch itself rejecting.
FetchOutcomes == {"ok", "badjson", "4xx", "5xx", "network"}

RECURSIVE Pow2(_)
Pow2(n) == IF n <= 0 THEN 1 ELSE 2 * Pow2(n - 1)

\* const delay = backoffMs * Math.pow(2, i)
BackoffDelay(backoffMs, i) == backoffMs * Pow2(i)

\* Mutant: the attempt after the last one counts as the last.
IsPastLastAttempt(i, retries) == i = retries

\* const isLastAttempt = i === retries - 1
IsLastAttempt(i, retries) == i = retries - 1

\* The body of the response to request number n, and the error request number
\* n ended in (thrown in the try block or by fetch / response.json()).
BodyOf(n) == [kind |-> "body", request |-> n]
ErrorOf(n, outcome) == [kind |-> "error", request |-> n, cause |-> outcome]
MaxRetriesExceeded == [kind |-> "error", request |-> 0, cause |-> "Max retries exceeded"]
NoFetchResult == [kind |-> "none", request |-> 0]

\* fetchWithRetry at rest (while another subsystem is explored).
FetchOff ==
    /\ fetchArgs = [retries |-> DefaultRetries, backoffMs |-> 1000]
    /\ fetchPc = "idle"
    /\ fetchI = 0
    /\ fetchResult = NoFetchResult
    /\ attempts = <<>>
    /\ waits = <<>>

\* ========================================================== cleanOHLCVData

MaxRaw == 3         \* longest rawData enumerated
MaxStamp == 2       \* timestamps t the aggregates carry (1..MaxStamp)

\* The open, high, low, close of the aggregates enumerated: a regular candle,
\* one whose high and low are swapped, ones with a zero, and ones with a
\* missing value.
RawShapes ==
    {<<8, 12, 6, 10>>, <<8, 6, 12, 10>>,
     <<0, 12, 6, 10>>, <<8, 12, 6, 0>>, <<0, 0, 0, 0>>,
     <<Undefined, 12, 6, 10>>, <<8, Undefined, 6, 10>>, <<8, 12, 6, Undefined>>,
     <<Undefined, Undefined, Undefined, Undefined>>}

\* A PolygonAggregate; n (the number of transactions) tells the aggregates of
\* one rawData apart.
ShapedAggregate(t, shape, n) ==
    [t |-> t, o |-> shape[1], h |-> shape[2], l |-> shape[3], c |-> shape[4],
     v |-> 5, vw |-> 10, n |-> n]

NotCleaned == [done |-> FALSE, out |-> <<>>]

\* The cleaner at rest (while another subsystem is explored).
CleanerOff ==
    /\ rawInput = <<>>
    /\ cleaned = NotCleaned

\* ========================================================= chart indicators

MaxData == 4        \* longest candle array enumerated
MaxPeriod == 2      \* largest RSI period enumerated

\* period: number = 14
RsiDefaultPeriod == 14

\* upColor and downColor as IndicatorOverlay passes them
UpColor == "#10b981"
DownColor == "#ef4444"

\* The candles enumerated: open 2.0, close below, at or above it; no volume
\* or some.
ChartCandle(time, close, volume) ==
    [time |-> time, open |-> 4, close |-> close, volume |-> volume]
ChartCloses == {2, 4, 6}
ChartVolumes == {0, 7}

\* color: candle.close >= candle.open ? upColor : downColor
VolumeColor(candle, upColor, downColor) ==
    IF candle.close >= candle.open THEN upColor ELSE downColor

\* formatVolumeData
FormatVolumeData(data, upColor, downColor) ==
    [i \in 1..Len(data) |->
        [time |-> data[i].time, value |-> data[i].volume,
         color |-> VolumeColor(data[i], upColor, downColor)]]

\* ---- calculateRSI.  The averages are fractions of integers, n / d; a
\* division by zero leaves d = 0 (JavaScript's Infinity or NaN).

RECURSIVE Gcd(_, _)
Gcd(a, b) == IF b = 0 THEN a ELSE Gcd(b, a % b)

\* n / d in lowest terms with a positive denominator
Frac(n, d) ==
    IF d = 0 THEN [n |-> n, d |-> 0]
    ELSE LET g == Gcd(Abs(n), Abs(d))
             sgn == IF d < 0 THEN -1 ELSE 1
         IN  [n |-> sgn * (n \div g), d |-> sgn * (d \div g)]

FracDiv(a, b) == Frac(a.n * b.d, a.d * b.n)
FracAdd(a, b) == Frac(a.n * b.d + b.n * a.d, a.d * b.d)
FracSub(a, b) == Frac(a.n * b.d - b.n * a.d, a.d * b.d)
FracMul(a, b) == Frac(a.n * b.n, a.d * b.d)
Whole1(k) == Frac(k, 1)

\* gains.push(change > 0 ? change : 0)
GainOf(change) == IF change > 0 THEN change ELSE 0

\* Mutant: the loss keeps the sign of the change.
LossSigned(change) == IF change < 0 THEN change ELSE 0

\* losses.push(change < 0 ? -change : 0)
LossOf(change) == IF change < 0 THEN -change ELSE 0

\* the price changes data[i].close - data[i - 1].close
Changes(data) == [k \in 1..Len(data) - 1 |-> data[k + 1].close - data[k].close]

\* xs.slice(0, period).reduce((a, b) => a + b, 0) / period
SimpleAverage(xs, period) == Frac(SumSeq(SubSeq(xs, 1, period)), period)

\* (avg * (period - 1) + x) / period
WilderSmooth(avg, x, period) ==
    FracDiv(FracAdd(FracMul(avg, Whole1(period - 1)), Whole1(x)), Whole1(period))

\* const rs = avgLoss === 0 ? 100 : avgGain / avgLoss
RelativeStrength(avgGain, avgLoss) ==
    IF avgLoss.d # 0 /\ avgLoss.n = 0 THEN Whole1(100) ELSE FracDiv(avgGain, avgLoss)

\* 100 - 100 / (1 + rs)
RsiValue(rs) == FracSub(Whole1(100), FracDiv(Whole1(100), FracAdd(Whole1(1), rs)))

\* the loop over j = period + 1 .. gains.length (the source's i is j - 1)
RECURSIVE RsiSmoothed(_, _, _, _, _, _, _)
RsiSmoothed(data, period, gains, losses, j, avgGain, avgLoss) ==
    IF j > Len(gains) THEN <<>>
    ELSE LET g == WilderSmooth(avgGain, gains[j], period)
             l == WilderSmooth(avgLoss, losses[j], period)
         IN  <<[time |-> data[j + 1].time, value |-> RsiValue(RelativeStrength(g, l))]>>
             \o RsiSmoothed(data, period, gains, losses, j + 1, g, l)

\* calculateRSI
CalculateRSI(data, period) ==
    IF Len(data) < period + 1 THEN <<>>
    ELSE LET changes == Changes(data)
             gains == [k \in 1..Len(changes) |-> GainOf(changes[k])]
             losses == [k \in 1..Len(changes) |-> LossOf(changes[k])]
             avgGain == SimpleAverage(gains, period)
             avgLoss == SimpleAverage(losses, period)
         IN  <<[time |-> data[period + 1].time,
                value |-> RsiValue(RelativeStrength(avgGain, avgLoss))]>>
             \o RsiSmoothed(data, period, gains, losses, period + 1, avgGain, avgLoss)

NoIndicator == [done |-> FALSE, out |-> <<>>]

\* The indicators at rest (while another subsystem is explored).
IndicatorsOff ==
    /\ chartData = <<>>
    /\ rsiPeriod = RsiDefaultPeriod
    /\ rsiResult = NoIndicator
    /\ volumeResult = NoIndicator

\* ============================================ forecast state machine

NoForecast == [given |-> FALSE, steps |-> <<>>]
NoFeatures == [open |-> 0, high |-> 0, low |-> 0, close |-> 0, volume |-> 0,
               t |-> 0, close_lag |-> [k \in 1..NumLags |-> 0], ATR_14 |-> 0]

LastClose(cs) == cs[Len(cs)].close

Histories ==
    {Ramp(n, last, trend, spread) :
        n \in 0..MaxCandles, last \in {798, 200}, trend \in {-2, 0, 2},
        spread \in {0, 2}}
    \cup {Ramp(200, 798, 2, 0)}   \* 200 hourly candles, 200.0 -> 399.0

FInit ==
    /\ polygonFeed = <<>>
    /\ redisCache = [k \in CacheKeys |-> Null]
    /\ call = NoCall
    /\ response = NoResponse
    /\ latestPrice = NoPrice
    /\ SearchOff
    /\ ServerOff
    /\ ClientOff
    /\ candles \in Histories
    /\ predictor \in Predictors
    /\ fpc = "start"
    /\ current = NoFeatures
    /\ step = 0
    /\ forecast = <<>>
    /\ returned = NoForecast
    /\ error = "none"
    /\ predictCalls = 0
    /\ StreamOff
    /\ ThrottleOff
    /\ FetchOff
    /\ CleanerOff
    /\ IndicatorsOff

\* generateForecast, Init: build the feature vector from the tail of candles.
BuildFeaturesOk ==
    /\ fpc = "start"
    /\ HasHistory(candles, Len(candles))
    /\ current' = BuildFeatures(candles, Len(candles))
    /\ fpc' = "loop"
    /\ step' = 1
    /\ UNCHANGED <<candles, predictor, forecast, returned, error, predictCalls>>
    /\ UNCHANGED notF

BuildFeaturesInsufficient ==
    /\ fpc = "start"
    /\ ~HasHistory(candles, Len(candles))
    /\ fpc' = "raised"
    /\ error' = "InsufficientHistory"
    /\ UNCHANGED <<candles, predictor, current, step, forecast, returned,
                   predictCalls>>
    /\ UNCHANGED notF

\* One iteration of the step loop.
PredictStep ==
    /\ fpc = "loop"
    /\ step <= TotalSteps
    /\ ~PredictorBroken(predictor)
    /\ \E up \in BOOLEAN :
        LET next_close == Predict(predictor, current)
            ohlc == EstimateOHLC(next_close, current)
            confidence == ConfidenceForStep(step)
            direction == Direction(next_close, current.close)
        IN  /\ forecast' = Append(forecast,
                   [step |-> step,
                    timestamp |-> CalculateTimestamp(candles, step),
                    open |-> ohlc.open, high |-> ohlc.high, low |-> ohlc.low,
                    close |-> ohlc.close,
                    confidence |-> Round2(confidence, up),
                    direction |-> direction])
            /\ current' = UpdateFeatures(current, ohlc)
    /\ step' = step + 1
    /\ predictCalls' = predictCalls + 1
    /\ UNCHANGED <<candles, predictor, fpc, returned, error>>
    /\ UNCHANGED notF

\* Mutant: the loop catches the failure and hands back the steps it has.
PredictorRaisesPartial ==
    /\ fpc = "loop"
    /\ step <= TotalSteps
    /\ predictCalls' = predictCalls + 1
    /\ fpc' = "returned"
    /\ returned' = [given |-> TRUE, steps |-> forecast]
    /\ UNCHANGED <<candles, predictor, current, step, forecast, error>>
    /\ UNCHANGED notF

\* model.predict raises: nothing in predict_30_steps catches it, so the call
\* unwinds and the local list is lost.
PredictorRaises ==
    /\ fpc = "loop"
    /\ step <= TotalSteps
    /\ predictCalls' = predictCalls + 1
    /\ fpc' = "raised"
    /\ error' = IF PredictorBroken(predictor) THEN "EmptyEnsemble"
                ELSE "ModelInferenceFailure"
    /\ UNCHANGED <<candles, predictor, current, step, forecast, returned>>
    /\ UNCHANGED notF

\* return forecast
ReturnForecast ==
    /\ fpc = "loop"
    /\ step > TotalSteps
    /\ fpc' = "returned"
    /\ returned' = [given |-> TRUE, steps |-> forecast]
    /\ UNCHANGED <<candles, predictor, current, step, forecast, error,
                   predictCalls>>
    /\ UNCHANGED notF

FNext ==
    \/ BuildFeaturesOk
    \/ BuildFeaturesInsufficient
    \/ PredictStep
    \/ PredictorRaises
    \/ ReturnForecast

SpecForecast == FInit /\ [][FNext]_vars

\* ========================================== candle provider state machine

\* What Polygon.io may come to hold next: a well-formed candle one period
\* later, a second aggregate for the latest timestamp, or a candle whose open
\* is zero.
FeedKinds == {"candle", "duplicate", "zeroOpen"}

RawAggregate(t, kind) ==
    [t |-> t,
     o |-> IF kind = "zeroOpen" THEN 0 ELSE 10 + t,
     h |-> 12 + t, l |-> 9 + t,
     c |-> IF kind = "duplicate" THEN 10 + t ELSE 11 + t,
     v |-> 5, vw |-> 10 + t, n |-> 1]

\* The time of the latest aggregate, in candle periods.
Now(feed) == IF feed = <<>> THEN 0 ELSE feed[Len(feed)].t

\* searchParams.get('limit'), and parseInt(limitParam, 10) of it.
LimitParams ==
    {[kind |-> "absent", n |-> 0], [kind |-> "nan", n |-> 0]} \cup
    {[kind |-> "num", n |-> k] : k \in (0..MaxLimit) \cup {RouteMaxLimit + 1}}

ParseLimit(limitParam) ==
    IF limitParam.kind = "absent" THEN [nan |-> FALSE, n |-> DefaultCount]
    ELSE IF limitParam.kind = "nan" THEN [nan |-> TRUE, n |-> 0]
    ELSE [nan |-> FALSE, n |-> limitParam.n]

BTC == GetFreshCandlesCacheKey("X:BTCUSD", "1h")

CallRecord(r) ==
    [outcome |-> r.outcome, source |-> r.source, count |-> r.count,
     available |-> r.available, result |-> r.result]

\* candles.map(candle => ({...candle, timestamp: candle.timestamp.toISOString()})):
\* toISOString exists on a Date only.
CanSerialize(cs) == \A i \in 1..Len(cs) : cs[i].timestamp.kind = "Date"

SerializeCandles(cs) ==
    [i \in 1..Len(cs) |->
        [cs[i] EXCEPT !.timestamp = [kind |-> "string", ms |-> cs[i].timestamp.ms]]]

ErrorResponse(status) == [status |-> status, candles |-> <<>>, count |-> 0]

CInit ==
    /\ polygonFeed = <<>>
    /\ redisCache = [k \in CacheKeys |-> Null]
    /\ call = NoCall
    /\ response = NoResponse
    /\ latestPrice = NoPrice
    /\ SearchOff
    /\ ServerOff
    /\ ClientOff
    /\ candles = <<>>
    /\ predictor = Single("persistence")
    /\ fpc = "idle"
    /\ current = NoFeatures
    /\ step = 0
    /\ forecast = <<>>
    /\ returned = NoForecast
    /\ error = "none"
    /\ predictCalls = 0
    /\ StreamOff
    /\ ThrottleOff
    /\ FetchOff
    /\ CleanerOff
    /\ IndicatorsOff

\* Polygon.io receives one more aggregate.
PolygonTick ==
    /\ fpc = "idle"
    /\ Len(polygonFeed) < MaxFeed
    /\ \E kind \in FeedKinds :
        /\ kind = "duplicate" => polygonFeed # <<>>
        /\ polygonFeed' = Append(polygonFeed,
               RawAggregate(IF kind = "duplicate" THEN Now(polygonFeed)
                            ELSE Now(polygonFeed) + 1, kind))
    /\ UNCHANGED <<redisCache, call, response, latestPrice>>
    /\ UNCHANGED notC

\* The 1-hour TTL of the fresh_candles key runs out.
CacheExpires ==
    /\ fpc = "idle"
    /\ redisCache[BTC] # Null
    /\ redisCache' = [redisCache EXCEPT ![BTC] = Null]
    /\ UNCHANGED <<polygonFeed, call, response, latestPrice>>
    /\ UNCHANGED notC

\* getFreshCandles called directly (the prediction engine, prefetchCandles).
CallGetFreshCandles ==
    /\ fpc = "idle"
    /\ \E count \in (1..MaxLimit) \cup {DefaultCount}, fetchOk \in BOOLEAN,
          slack \in 0..MaxDaySlack :
        LET r == GetFreshCandles(redisCache[BTC], count,
                     InRange(polygonFeed, Now(polygonFeed), count, slack), fetchOk)
        IN  /\ call' = CallRecord(r)
            /\ redisCache' = [redisCache EXCEPT ![BTC] = r.cacheAfter]
    /\ response' = NoResponse
    /\ latestPrice' = NoPrice
    /\ UNCHANGED polygonFeed
    /\ UNCHANGED notC

\* getLatestPrice(ticker, timeframe)
CallGetLatestPrice ==
    /\ fpc = "idle"
    /\ \E fetchOk \in BOOLEAN, slack \in 0..MaxDaySlack :
        LET p == GetLatestPrice(redisCache[BTC],
                     InRange(polygonFeed, Now(polygonFeed), 1, slack), fetchOk)
        IN  /\ call' = CallRecord(p.candles)
            /\ redisCache' = [redisCache EXCEPT ![BTC] = p.candles.cacheAfter]
            /\ latestPrice' = [called |-> TRUE, price |-> p.price]
    /\ response' = NoResponse
    /\ UNCHANGED polygonFeed
    /\ UNCHANGED notC

\* GET /api/candles/{ticker}/{timeframe}?limit=..
RouteGET ==
    /\ fpc = "idle"
    /\ \E ticker \in {"X:BTCUSD", ""}, timeframe \in {"1h", "2h"},
          limitParam \in LimitParams, fetchOk \in BOOLEAN,
          slack \in 0..MaxDaySlack, timedOut \in BOOLEAN :
        LET limit == ParseLimit(limitParam)
        IN  IF ticker = ""
                \/ timeframe \notin SUPPORTED_TIMEFRAMES
                \/ limit.nan \/ limit.n < 1 \/ limit.n > RouteMaxLimit
            THEN /\ response' = ErrorResponse(400)
                 /\ call' = NoCall
                 /\ UNCHANGED redisCache
            ELSE LET r == GetFreshCandles(
                              redisCache[GetFreshCandlesCacheKey(ticker, timeframe)],
                              limit.n,
                              InRange(polygonFeed, Now(polygonFeed), limit.n, slack),
                              fetchOk)
                 IN  /\ call' = CallRecord(r)
                     /\ redisCache' =
                            [redisCache EXCEPT
                                ![GetFreshCandlesCacheKey(ticker, timeframe)] =
                                    r.cacheAfter]
                     /\ response' =
                            IF timedOut \/ r.outcome = "throw"
                               \/ ~CanSerialize(r.result)
                            THEN ErrorResponse(500)
                            ELSE [status |-> 200,
                                  candles |-> SerializeCandles(r.result),
                                  count |-> Len(r.result)]
    /\ latestPrice' = NoPrice
    /\ UNCHANGED polygonFeed
    /\ UNCHANGED notC

CNext ==
    \/ PolygonTick
    \/ CacheExpires
    \/ CallGetFreshCandles
    \/ CallGetLatestPrice
    \/ RouteGET

SpecCandles == CInit /\ [][CNext]_vars

\* ============================================= symbol search state machine

\* The forecast pipeline and the candle provider at rest.
ForecastOff ==
    /\ candles = <<>>
    /\ predictor = Single("persistence")
    /\ fpc = "idle"
    /\ current = NoFeatures
    /\ step = 0
    /\ forecast = <<>>
    /\ returned = NoForecast
    /\ error = "none"
    /\ predictCalls = 0

CandlesOff ==
    /\ polygonFeed = <<>>
    /\ redisCache = [k \in CacheKeys |-> Null]
    /\ call = NoCall
    /\ response = NoResponse
    /\ latestPrice = NoPrice

SInit ==
    /\ ForecastOff
    /\ CandlesOff
    /\ ServerOff
    /\ ClientOff
    /\ symbolsTable = {SymbolRow(BTCTicker, TRUE)}
    /\ searchCache = [k \in SearchKeys |-> Null]
    /\ handlers = EmptyBag
    /\ lastMiss = [k \in ContractKeys |-> Null]
    /\ searchResponse = NoSearchResponse
    /\ StreamOff
    /\ ThrottleOff
    /\ FetchOff
    /\ CleanerOff
    /\ IndicatorsOff

\* GET up to the first database access: parameter validation and the cache
\* lookup (route.ts:17-48).
SearchArrive ==
    /\ BagCardinality(handlers) < MaxInFlight
    /\ \E query \in Queries, limitParam \in SearchLimitParams, redisOk \in BOOLEAN :
        LET limit == SearchParseLimit(limitParam)
        IN  IF query = Null \/ TrimIsEmpty(query.text)
               \/ limit < 1 \/ limit > SearchMaxLimit
            THEN /\ searchResponse' = SearchError(400, FALSE)
                 /\ UNCHANGED handlers
            ELSE IF ~redisOk
            THEN /\ searchResponse' = SearchError(500, FALSE)
                 /\ UNCHANGED handlers
            ELSE LET cacheKey == SearchCacheKey(query.text, limit)
                     cached == GetCache(searchCache, cacheKey)
                     after == lastMiss[<<ToLowerCase(query.text), limit>>]
                 IN  IF cached # Null
                     THEN /\ searchResponse' =
                                [status |-> 200, symbols |-> cached.symbols,
                                 count |-> cached.count, cached |-> TRUE,
                                 queriedDb |-> FALSE, after |-> after]
                          /\ UNCHANGED handlers
                     ELSE /\ handlers' = handlers (+) SetToBag({
                                [pc |-> "query", query |-> query.text,
                                 limit |-> limit, after |-> after,
                                 symbols |-> <<>>]})
                          /\ UNCHANGED searchResponse
    /\ UNCHANGED <<symbolsTable, searchCache, lastMiss>>
    /\ UNCHANGED notS

\* const symbols = await searchSymbols(query, limit)
SearchQueryDb ==
    /\ \E me \in BagToSet(handlers), dbOk \in BOOLEAN :
        /\ me.pc = "query"
        /\ IF dbOk
           THEN /\ handlers' = (handlers (-) SetToBag({me})) (+) SetToBag({
                        [me EXCEPT !.symbols = SearchSymbols(symbolsTable, me.query,
                                                             me.limit),
                                   !.pc = "store"]})
                /\ UNCHANGED searchResponse
           ELSE /\ handlers' = handlers (-) SetToBag({me})
                /\ searchResponse' = SearchError(500, TRUE)
    /\ UNCHANGED <<symbolsTable, searchCache, lastMiss>>
    /\ UNCHANGED notS

\* await setCache(cacheKey, response, CACHE_TTL_SECONDS) and the answer
SearchStoreAndRespond ==
    /\ \E me \in BagToSet(handlers), redisOk \in BOOLEAN :
        LET body == [symbols |-> SymbolsToJson(me.symbols),
                     count |-> Len(me.symbols)]
        IN  /\ me.pc = "store"
            /\ handlers' = handlers (-) SetToBag({me})
            /\ IF redisOk
               THEN /\ searchCache' = SetCache(searchCache,
                                          SearchCacheKey(me.query, me.limit), body,
                                          CACHE_TTL_SECONDS)
                    /\ searchResponse' =
                           [status |-> 200, symbols |-> body.symbols,
                            count |-> body.count, cached |-> FALSE,
                            queriedDb |-> TRUE, after |-> me.after]
                    /\ lastMiss' = [lastMiss EXCEPT
                           ![<<ToLowerCase(me.query), me.limit>>] =
                               [symbols |-> body.symbols, count |-> body.count,
                                query |-> me.query, age |-> 0]]
               ELSE /\ searchResponse' = SearchError(500, TRUE)
                    /\ UNCHANGED <<searchCache, lastMiss>>
    /\ UNCHANGED symbolsTable
    /\ UNCHANGED notS

\* 100 seconds pass.
SearchClockAdvance ==
    /\ searchCache' = ExpireKeys(searchCache, 100)
    /\ lastMiss' = [k \in DOMAIN lastMiss |-> Older(lastMiss[k], 100)]
    /\ UNCHANGED <<symbolsTable, handlers, searchResponse>>
    /\ UNCHANGED notS

\* upsertSymbol: the table changes under the cache.
UpsertSymbol ==
    /\ \E isActive \in BOOLEAN :
        symbolsTable' = {r \in symbolsTable : r.ticker # WBTCTicker}
                            \cup {SymbolRow(WBTCTicker, isActive)}
    /\ UNCHANGED <<searchCache, handlers, lastMiss, searchResponse>>
    /\ UNCHANGED notS

SNext ==
    \/ SearchArrive
    \/ SearchQueryDb
    \/ SearchStoreAndRespond
    \/ SearchClockAdvance
    \/ UpsertSymbol

SpecSearch == SInit /\ [][SNext]_vars

\* ===================================== PolygonWebSocketServer state machine

WInit ==
    /\ ForecastOff
    /\ CandlesOff
    /\ SearchOff
    /\ ClientOff
    /\ server = NewServer
    /\ upstream = [i \in 1..MaxSockets |-> NoSocket]
    /\ orphanReconnects = 0
    /\ graceTimers = <<>>
    /\ quiet = 0
    /\ StreamOff
    /\ ThrottleOff
    /\ FetchOff
    /\ CleanerOff
    /\ IndicatorsOff

Here == World(server, upstream, orphanReconnects)

Becomes(w) ==
    /\ server' = w.srv
    /\ upstream' = Forget(w).socks
    /\ orphanReconnects' = w.orphans

\* polygonWSServer.addSubscriber()
SrvAddSubscriber ==
    /\ server.subscriberCount < MaxSubscribers
    /\ CanConnect(Here)
    /\ Becomes(AddSubscriber(Here))
    /\ UNCHANGED <<graceTimers, quiet>>
    /\ UNCHANGED notW

\* polygonWSServer.removeSubscriber()
SrvRemoveSubscriber ==
    LET count == Max2(0, server.subscriberCount - 1)
    IN  /\ count = 0 => Len(graceTimers) < MaxTimers
        /\ server' = [server EXCEPT !.subscriberCount = count]
        /\ graceTimers' = IF count = 0 THEN Append(graceTimers, GRACE_PERIOD_S)
                          ELSE graceTimers
        /\ quiet' = 0
        /\ UNCHANGED <<upstream, orphanReconnects>>
        /\ UNCHANGED notW

\* polygonWSServer.connect()
SrvConnect ==
    /\ CanConnect(Here)
    /\ Becomes(Connect(Here))
    /\ UNCHANGED <<graceTimers, quiet>>
    /\ UNCHANGED notW

\* polygonWSServer.disconnect()
SrvDisconnect ==
    /\ Becomes(Disconnect(Here))
    /\ UNCHANGED <<graceTimers, quiet>>
    /\ UNCHANGED notW

\* 'open' on socket i
SocketOpen(i) ==
    /\ upstream[i].readyState = "CONNECTING"
    /\ Becomes(HandleOpen([Here EXCEPT !.socks[i].readyState = "OPEN"]))
    /\ UNCHANGED <<graceTimers, quiet>>
    /\ UNCHANGED notW

\* 'message' on socket i: Polygon.io answers the auth message with auth_success
SocketAuthSuccess(i) ==
    /\ upstream[i].readyState = "OPEN"
    /\ upstream[i].authSent
    /\ Becomes([Here EXCEPT !.socks[i].authSent = FALSE,
                            !.srv.state = "authenticated"])
    /\ UNCHANGED <<graceTimers, quiet>>
    /\ UNCHANGED notW

\* 'error' on socket i: handleError only emits; the socket is torn down and
\* its 'close' follows.
SocketError(i) ==
    /\ Live(upstream[i])
    /\ Becomes([Here EXCEPT !.socks[i].readyState = "CLOSING"])
    /\ UNCHANGED <<graceTimers, quiet>>
    /\ UNCHANGED notW

\* 'close' on socket i: the connection dropped, or a closing handshake ended
SocketClose(i) ==
    /\ upstream[i].readyState \in {"CONNECTING", "OPEN", "CLOSING"}
    /\ server.subscriberCount > 0 =>
          orphanReconnects + (IF server.reconnectTimer = "pending" THEN 1 ELSE 0)
              < MaxTimers
    /\ Becomes(HandleClose([Here EXCEPT !.socks[i] =
                               [readyState |-> "CLOSED", authSent |-> FALSE]]))
    /\ UNCHANGED <<graceTimers, quiet>>
    /\ UNCHANGED notW

\* a reconnect timeout fires: the one this.reconnectTimer holds, or an
\* orphaned one
ReconnectTimerFires ==
    /\ CanConnect(Here)
    /\ \/ /\ server.reconnectTimer = "pending"
          /\ Becomes(Connect([Here EXCEPT !.srv.reconnectTimer = "fired"]))
       \/ /\ orphanReconnects > 0
          /\ Becomes(Connect([Here EXCEPT !.orphans = @ - 1]))
    /\ UNCHANGED <<graceTimers, quiet>>
    /\ UNCHANGED notW

\* the oldest grace timeout fires
GraceTimerFires ==
    /\ graceTimers # <<>>
    /\ Head(graceTimers) = 0
    /\ graceTimers' = Tail(graceTimers)
    /\ IF server.subscriberCount = 0
       THEN Becomes(Disconnect(Here))
       ELSE UNCHANGED <<server, upstream, orphanReconnects>>
    /\ UNCHANGED quiet
    /\ UNCHANGED notW

\* 15 seconds pass; a timeout that is due fires first.
ServerTick ==
    /\ \A k \in 1..Len(graceTimers) : graceTimers[k] >= 15
    /\ graceTimers' = [k \in 1..Len(graceTimers) |-> graceTimers[k] - 15]
    /\ quiet' = Min2(GRACE_PERIOD_S, quiet + 15)
    /\ UNCHANGED <<server, upstream, orphanReconnects>>
    /\ UNCHANGED notW

WNext ==
    \/ SrvAddSubscriber
    \/ SrvRemoveSubscriber
    \/ SrvConnect
    \/ SrvDisconnect
    \/ \E i \in 1..MaxSockets :
          \/ SocketOpen(i)
          \/ SocketAuthSuccess(i)
          \/ SocketError(i)
          \/ SocketClose(i)
    \/ ReconnectTimerFires
    \/ GraceTimerFires
    \/ ServerTick

SpecServer == WInit /\ [][WNext]_vars

\* ===================================== PolygonWebSocketClient state machine

KInit ==
    /\ ForecastOff
    /\ CandlesOff
    /\ SearchOff
    /\ ServerOff
    /\ client = NewClient
    /\ clientSockets = [i \in 1..MaxClientSockets |-> NoClientSocket]
    /\ clientTimeouts = 0
    /\ recovering = FALSE
    /\ StreamOff
    /\ ThrottleOff
    /\ FetchOff
    /\ CleanerOff
    /\ IndicatorsOff

ClientHere == ClientWorld(client, clientSockets, clientTimeouts)

ClientBecomes(w) ==
    /\ Len(w.c.messageBuffer) <= MaxBuffer
    /\ client' = w.c
    /\ clientSockets' = ClientForget(w).socks
    /\ clientTimeouts' = w.timeouts

\* client.connect()
CliConnect ==
    /\ ClientCanConnect(ClientHere)
    /\ ClientBecomes(ClientConnect(ClientHere))
    /\ UNCHANGED recovering
    /\ UNCHANGED notK

\* client.disconnect()
CliDisconnect ==
    /\ ClientBecomes(ClientDisconnect(ClientHere))
    /\ recovering' = FALSE
    /\ UNCHANGED notK

\* client.subscribe(ticker)
CliSubscribe ==
    /\ \E t \in ClientTickers : ClientBecomes(ClientSubscribe(ClientHere, {t}))
    /\ UNCHANGED recovering
    /\ UNCHANGED notK

\* client.unsubscribe(ticker)
CliUnsubscribe ==
    /\ \E t \in ClientTickers : ClientBecomes(ClientUnsubscribe(ClientHere, {t}))
    /\ UNCHANGED recovering
    /\ UNCHANGED notK

\* onopen of socket i
CliSocketOpen(i) ==
    /\ clientSockets[i].readyState = "CONNECTING"
    /\ ClientBecomes(ClientHandleOpen(
           [ClientHere EXCEPT !.socks[i].readyState = "OPEN"]))
    /\ UNCHANGED recovering
    /\ UNCHANGED notK

\* onmessage of socket i with a status message.  Polygon.io sends auth_success
\* or auth_failed in answer to an auth message; the client handles either
\* whenever it arrives.
CliSocketStatus(i) ==
    /\ clientSockets[i].readyState = "OPEN"
    /\ \E status \in {"auth_success", "auth_failed"} :
          ClientBecomes(ClientHandleStatus(
              [ClientHere EXCEPT !.socks[i].owesAuth = FALSE], status))
    /\ UNCHANGED recovering
    /\ UNCHANGED notK

\* onerror of socket i: the connection failed; its onclose follows
CliSocketError(i) ==
    /\ clientSockets[i].readyState \in {"CONNECTING", "OPEN"}
    /\ ClientBecomes([ClientHere EXCEPT !.c.state = "error",
                                        !.socks[i].readyState = "CLOSING",
                                        !.socks[i].failed = TRUE])
    /\ UNCHANGED recovering
    /\ UNCHANGED notK

\* onclose of socket i
CliSocketClose(i) ==
    /\ clientSockets[i].readyState \in {"CONNECTING", "OPEN", "CLOSING"}
    /\ \E wasClean \in BOOLEAN :
        /\ clientSockets[i].failed => ~wasClean
        /\ ClientBecomes(ClientHandleClose(
               [ClientHere EXCEPT !.socks[i] = ClosedClientSocket], wasClean))
        /\ recovering' = (recovering \/ ~wasClean)
    /\ UNCHANGED notK

\* the reconnect timeout fires
CliReconnectFires ==
    /\ clientTimeouts > 0
    /\ LET fired == [ClientHere EXCEPT !.c.reconnectTimer = FALSE,
                                       !.timeouts = @ - 1]
       IN  /\ ClientCanConnect(fired)
           /\ ClientBecomes(ClientConnect(fired))
    /\ UNCHANGED recovering
    /\ UNCHANGED notK

KNext ==
    \/ CliConnect
    \/ CliDisconnect
    \/ CliSubscribe
    \/ CliUnsubscribe
    \/ \E i \in 1..MaxClientSockets :
          \/ CliSocketOpen(i)
          \/ CliSocketStatus(i)
          \/ CliSocketError(i)
          \/ CliSocketClose(i)
    \/ CliReconnectFires

SpecClient == KInit /\ [][KNext]_vars

\* ============================================ useRealtimeStream state machine

\* After the first render and its effect (there is no cleanup to run yet).
RInit ==
    /\ ForecastOff
    /\ CandlesOff
    /\ SearchOff
    /\ ServerOff
    /\ ClientOff
    /\ autoConnect \in BOOLEAN
    /\ stream = (IF autoConnect THEN StreamConnect(NewStream) ELSE NewStream)
    /\ orphanRetries = 0
    /\ errors = 0
    /\ made = (IF autoConnect THEN "effect" ELSE "none")
    /\ ThrottleOff
    /\ FetchOff
    /\ CleanerOff
    /\ IndicatorsOff

\* React renders the queued status; the effect is left to run.  A render waits
\* for the effects of the previous commit.
StreamCommit ==
    /\ stream.queued # "none"
    /\ ~stream.effects
    /\ stream' = [stream EXCEPT !.status = stream.queued, !.queued = "none",
                                !.effects = TRUE]
    /\ made' = "none"
    /\ UNCHANGED <<autoConnect, orphanRetries, errors>>
    /\ UNCHANGED notR

\* React runs the effects of the last commit: status is a dependency, so the
\* previous cleanup and the effect both run.
StreamFlushEffects ==
    /\ stream.effects
    /\ stream' = StreamEffect(stream, autoConnect)
    /\ made' = (IF stream'.es = "connecting" THEN "effect" ELSE "none")
    /\ UNCHANGED <<autoConnect, orphanRetries, errors>>
    /\ UNCHANGED notR

\* The component calls the returned connect().
StreamCallConnect ==
    /\ stream' = StreamConnect(stream)
    /\ made' = (IF StreamCreates(stream) THEN "explicit" ELSE "none")
    /\ errors' = (IF StreamCreates(stream) THEN 0 ELSE errors)
    /\ UNCHANGED <<autoConnect, orphanRetries>>
    /\ UNCHANGED notR

\* The component calls the returned disconnect().
StreamCallDisconnect ==
    /\ stream' = StreamDisconnect(stream)
    /\ made' = "none"
    /\ UNCHANGED <<autoConnect, orphanRetries, errors>>
    /\ UNCHANGED notR

\* The EventSource opens.
StreamOpen ==
    /\ stream.es = "connecting"
    /\ stream' = StreamOnOpen(stream)
    /\ errors' = 0
    /\ made' = "open"
    /\ UNCHANGED <<autoConnect, orphanRetries>>
    /\ UNCHANGED notR

\* The server sends { type: 'disconnected' }.
StreamServerDisconnected ==
    /\ stream.es = "open"
    /\ stream' = SetStatus(stream, "disconnected")
    /\ made' = "none"
    /\ UNCHANGED <<autoConnect, orphanRetries, errors>>
    /\ UNCHANGED notR

\* The EventSource reports an error.
StreamError ==
    /\ stream.es # "none"
    /\ stream.retryCount < MaxRetryCount
    /\ LET r == StreamOnError(stream, orphanRetries)
       IN  /\ r.orphans <= MaxOrphanRetries
           /\ stream' = r.h
           /\ orphanRetries' = r.orphans
    /\ errors' = (IF errors < MAX_RETRIES THEN errors + 1 ELSE errors)
    /\ made' = "none"
    /\ UNCHANGED autoConnect
    /\ UNCHANGED notR

\* A reconnect timeout fires: if (ticker && autoConnect) connect().
StreamRetryFires ==
    /\ \/ /\ stream.timeout
          /\ orphanRetries' = orphanRetries
          /\ stream' = (IF autoConnect
                        THEN StreamConnect([stream EXCEPT !.timeout = FALSE])
                        ELSE [stream EXCEPT !.timeout = FALSE])
       \/ /\ orphanRetries > 0
          /\ orphanRetries' = orphanRetries - 1
          /\ stream' = (IF autoConnect THEN StreamConnect(stream) ELSE stream)
    /\ made' = (IF autoConnect /\ StreamCreates(stream) THEN "timeout" ELSE "none")
    /\ UNCHANGED <<autoConnect, errors>>
    /\ UNCHANGED notR

RNext ==
    \/ StreamCommit
    \/ StreamFlushEffects
    \/ StreamCallConnect
    \/ StreamCallDisconnect
    \/ StreamOpen
    \/ StreamServerDisconnected
    \/ StreamError
    \/ StreamRetryFires

SpecStream == RInit /\ [][RNext]_vars

\* ================================================== throttle state machine

TInit ==
    /\ ForecastOff
    /\ CandlesOff
    /\ SearchOff
    /\ ServerOff
    /\ ClientOff
    /\ StreamOff
    /\ clock = MountTime
    /\ throttled = Throttle
    /\ ticks = 0
    /\ calls = <<>>
    /\ runs = <<>>
    /\ FetchOff
    /\ CleanerOff
    /\ IndicatorsOff

\* The price effect calls throttledUpdate(price).
ThrottledUpdate ==
    /\ Len(calls) < MaxCalls
    /\ LET r == ThrottledCall(throttled, clock, THROTTLE_DELAY)
       IN  /\ throttled' = r.closure
           /\ calls' = Append(calls, [at |-> clock, ran |-> r.ran])
           /\ runs' = (IF r.ran THEN Append(runs, clock) ELSE runs)
    /\ UNCHANGED <<clock, ticks>>
    /\ UNCHANGED notT

\* Time passes.
ClockAdvances ==
    /\ ticks < MaxTicks
    /\ \E d \in Elapses : clock' = clock + d
    /\ ticks' = ticks + 1
    /\ UNCHANGED <<throttled, calls, runs>>
    /\ UNCHANGED notT

TNext ==
    \/ ThrottledUpdate
    \/ ClockAdvances

SpecThrottle == TInit /\ [][TNext]_vars

\* ============================================ fetchWithRetry state machine

\* fetchWithRetry(url, retries, backoffMs) has been called.
QInit ==
    /\ ForecastOff
    /\ CandlesOff
    /\ SearchOff
    /\ ServerOff
    /\ ClientOff
    /\ StreamOff
    /\ ThrottleOff
    /\ fetchArgs \in [retries : 0..MaxFetchRetries, backoffMs : Backoffs]
    /\ fetchPc = "called"
    /\ fetchI = 0
    /\ fetchResult = NoFetchResult
    /\ attempts = <<>>
    /\ waits = <<>>
    /\ CleanerOff
    /\ IndicatorsOff

\* The loop head with loop variable i: issue the next request, or leave the
\* loop and throw.
FetchLoop(i) ==
    IF i < fetchArgs.retries
    THEN /\ fetchPc' = "request"
         /\ fetchResult' = fetchResult
    ELSE /\ fetchPc' = "thrown"
         /\ fetchResult' = MaxRetriesExceeded

\* The function body starts: for (let i = 0; ..)
FetchStart ==
    /\ fetchPc = "called"
    /\ fetchI' = 0
    /\ FetchLoop(0)
    /\ UNCHANGED <<fetchArgs, attempts, waits>>
    /\ UNCHANGED notQ

\* The awaited request settles: return the body, or catch the error and
\* rethrow it or start the backoff timeout.
FetchSettles ==
    /\ fetchPc = "request"
    /\ \E outcome \in FetchOutcomes :
          LET n == Len(attempts) + 1
          IN  /\ attempts' = Append(attempts, outcome)
              /\ IF outcome = "ok"
                 THEN /\ fetchPc' = "returned"
                      /\ fetchResult' = BodyOf(n)
                      /\ waits' = waits
                 ELSE IF IsLastAttempt(fetchI, fetchArgs.retries)
                 THEN /\ fetchPc' = "thrown"
                      /\ fetchResult' = ErrorOf(n, outcome)
                      /\ waits' = waits
                 ELSE /\ fetchPc' = "backoff"
                      /\ fetchResult' = fetchResult
                      /\ waits' = Append(waits, BackoffDelay(fetchArgs.backoffMs, fetchI))
    /\ UNCHANGED <<fetchArgs, fetchI>>
    /\ UNCHANGED notQ

\* The backoff timeout fires: i++ and the loop head.
FetchBackoffElapses ==
    /\ fetchPc = "backoff"
    /\ fetchI' = fetchI + 1
    /\ FetchLoop(fetchI + 1)
    /\ UNCHANGED <<fetchArgs, attempts, waits>>
    /\ UNCHANGED notQ

QNext ==
    \/ FetchStart
    \/ FetchSettles
    \/ FetchBackoffElapses

SpecFetch == QInit /\ [][QNext]_vars

\* Every awaited request settles and every timeout fires.
SpecFetchFair == SpecFetch /\ WF_vars(QNext)

\* ============================================ cleanOHLCVData state machine

DInit ==
    /\ ForecastOff
    /\ CandlesOff
    /\ SearchOff
    /\ ServerOff
    /\ ClientOff
    /\ StreamOff
    /\ ThrottleOff
    /\ FetchOff
    /\ \E len \in 0..MaxRaw :
          \E ts \in [1..len -> 1..MaxStamp], shapes \in [1..len -> RawShapes] :
              rawInput = [i \in 1..len |-> ShapedAggregate(ts[i], shapes[i], i)]
    /\ cleaned = NotCleaned
    /\ IndicatorsOff

CallCleanOHLCVData ==
    /\ ~cleaned.done
    /\ cleaned' = [done |-> TRUE, out |-> CleanOHLCVData(rawInput)]
    /\ UNCHANGED rawInput
    /\ UNCHANGED notD

DNext == CallCleanOHLCVData

SpecCleaner == DInit /\ [][DNext]_vars

\* ============================================ chart indicators state machine

IInit ==
    /\ ForecastOff
    /\ CandlesOff
    /\ SearchOff
    /\ ServerOff
    /\ ClientOff
    /\ StreamOff
    /\ ThrottleOff
    /\ FetchOff
    /\ CleanerOff
    /\ \E len \in 0..MaxData :
          \E closes \in [1..len -> ChartCloses], volumes \in [1..len -> ChartVolumes] :
              chartData = [i \in 1..len |-> ChartCandle(i, closes[i], volumes[i])]
    /\ rsiPeriod \in 1..MaxPeriod
    /\ rsiResult = NoIndicator
    /\ volumeResult = NoIndicator

\* IndicatorOverlay, case 'volume'
CallFormatVolumeData ==
    /\ ~volumeResult.done
    /\ volumeResult' = [done |-> TRUE,
                        out |-> FormatVolumeData(chartData, UpColor, DownColor)]
    /\ UNCHANGED <<chartData, rsiPeriod, rsiResult>>
    /\ UNCHANGED notI

\* IndicatorOverlay, case 'rsi'
CallCalculateRSI ==
    /\ ~rsiResult.done
    /\ rsiResult' = [done |-> TRUE, out |-> CalculateRSI(chartData, rsiPeriod)]
    /\ UNCHANGED <<chartData, rsiPeriod, volumeResult>>
    /\ UNCHANGED notI

INext ==
    \/ CallFormatVolumeData
    \/ CallCalculateRSI

SpecIndicators == IInit /\ [][INext]_vars

\* =================================================================== claims
\* Forecast pipeline, checked under SpecForecast.

\* The close a forecast step is compared with: the previous step's close, or
\* the last historical close for the first step.
PrevClose(k) == IF k = 1 THEN LastClose(candles) ELSE forecast[k - 1].close

\* C1: every forecast step is labelled 'up' iff its close is strictly above
\* the previous close, 'down' iff strictly below, and 'flat' when they are equal.
C1_DirectionThreeWay ==
    \A k \in 1..Len(forecast) :
        forecast[k].direction =
            IF forecast[k].close > PrevClose(k) THEN "up"
            ELSE IF forecast[k].close < PrevClose(k) THEN "down"
            ELSE "flat"

\* C2: the confidence of step k is max(low, high - (k - 1) * (high - low) /
\* (totalSteps - 1)): high at step 1 and exactly low at step totalSteps
\* (both sides multiplied by totalSteps - 1).
C2_LinearDecayToLow ==
    \A k \in 1..Len(forecast) :
        /\ forecast[k].confidence * (TotalSteps - 1) =
              Max2(LowConf * (TotalSteps - 1),
                   HighConf * (TotalSteps - 1) - (k - 1) * (HighConf - LowConf))
        /\ (k = TotalSteps => forecast[k].confidence = LowConf)

\* C3: the time-decay confidence never increases with the step number, as
\* computed and as stored in the forecast.
C3_ConfidenceMonotone ==
    /\ \A i, j \in 1..TotalSteps :
          i < j => ConfidenceForStep(i) >= ConfidenceForStep(j)
    /\ \A i, j \in 1..Len(forecast) :
          i < j => forecast[i].confidence >= forecast[j].confidence

C3_Witness == fpc = "returned" /\ Len(returned.steps) = TotalSteps

\* The end-to-end scenario: 200 hourly candles closing 200.0 .. 399.0 and a
\* model that predicts lastClose + 1.0.
EndToEndScenario ==
    /\ Len(candles) = 200
    /\ \A i \in 1..200 : candles[i].close = 2 * (199 + i)
    /\ predictor = Single("lastPlusOne")

\* C4: 200 candles closing 200.0 .. 399.0 and a model predicting lastClose + 1.0
\* give closes 400 .. 404, all 'up', with confidences 0.85, 0.7875, 0.725,
\* 0.6625, 0.60 on the first five steps.
C4_EndToEndFiveSteps ==
    (EndToEndScenario /\ Len(forecast) >= 5) =>
        \A k \in 1..5 :
            /\ forecast[k].close = 2 * (399 + k)
            /\ forecast[k].direction = "up"
            /\ forecast[k].confidence = <<10200, 9450, 8700, 7950, 7200>>[k]

\* C5: when the predictor fails at step k the caller receives no forecast, the
\* k - 1 assembled steps are not handed over, and the predictor was not called
\* again after the failure; a forecast that is handed over is complete.
C5_NoPartialForecast ==
    /\ fpc = "raised" =>
          /\ returned = NoForecast
          /\ error # "none"
          /\ error \in {"ModelInferenceFailure", "EmptyEnsemble"} =>
                predictCalls = Len(forecast) + 1
    /\ returned.given =>
          /\ Len(returned.steps) = TotalSteps
          /\ error = "none"

C5_Witness ==
    fpc = "raised" /\ error = "ModelInferenceFailure" /\ Len(forecast) >= 2

\* C6: generateForecast fails with InsufficientHistory exactly when fewer than
\* W candles precede the as-of candle, and then produces no forecast step.
C6_InsufficientHistoryBoundary ==
    fpc # "start" =>
        /\ (Leading(Len(candles)) < LookbackW) <=> (error = "InsufficientHistory")
        /\ error = "InsufficientHistory" =>
              forecast = <<>> /\ returned = NoForecast /\ predictCalls = 0
        /\ Leading(Len(candles)) >= LookbackW => fpc # "raised" \/ predictCalls > 0

C6_Witness ==
    error = "InsufficientHistory" /\ Leading(Len(candles)) = LookbackW - 1

\* The other side of the boundary: exactly W leading candles give a forecast.
C6_BoundarySucceeds ==
    fpc = "returned" /\ Leading(Len(candles)) = LookbackW

\* Every assembled step opens on the close before it and lies between its low
\* and its high.
C7_ChainInv ==
    \A k \in 1..Len(forecast) :
        /\ forecast[k].open = PrevClose(k)
        /\ forecast[k].low <= forecast[k].close
        /\ forecast[k].close <= forecast[k].high

\* A newly appended step's high and low are half the current volatility away
\* from its close.
C7_StepSpread ==
    Len(forecast') = Len(forecast) + 1 =>
        LET s == forecast'[Len(forecast')]
        IN  /\ 2 * (s.high - s.close) = current.ATR_14
            /\ 2 * (s.close - s.low) = current.ATR_14

\* C7: step 1 opens on the last historical close and step k > 1 on step k - 1's
\* close; high and low are the close plus and minus half the volatility of the
\* feature state the step was predicted from, so low <= close <= high.
C7_OpensChain == [](C7_ChainInv) /\ [][C7_StepSpread]_vars

C7_Witness ==
    /\ Len(forecast) >= 3
    /\ forecast[3].high > forecast[3].close
    /\ forecast[3].open # forecast[2].open

\* C8: an ensemble of one member with weight 1.0 predicts what the member
\* predicts alone, with variance 0, on every feature state the loop reaches.
C8_EnsembleDegeneracy ==
    fpc = "loop" =>
        /\ \A m \in Models :
              EnsemblePredictNext(<<Member(m, 100)>>, current) =
                  [mean |-> PredictNext(m, current), variance100 |-> 0]
        /\ (predictor.kind = "ensemble" /\ Len(predictor.members) = 1) =>
              Predict(predictor, current) =
                  Predict(Single(predictor.members[1].model), current)

C8_Witness ==
    /\ fpc = "loop"
    /\ predictor = Ensemble(<<Member("meanRevert", 100)>>)
    /\ Len(forecast) >= 2

\* Candle provider, checked under SpecCandles.

\* C9: every successful /api/candles response lists its candles with strictly
\* increasing timestamps.
C9_ResponseChronological ==
    response.status = 200 =>
        \A i \in 1..(Len(response.candles) - 1) :
            response.candles[i].timestamp.ms < response.candles[i + 1].timestamp.ms

CountAt(cs, ms) == Cardinality({i \in 1..Len(cs) : cs[i].timestamp.ms = ms})
CountNewer(cs, ms) == Cardinality({i \in 1..Len(cs) : cs[i].timestamp.ms > ms})

\* `result` holds exactly the n candles of `available` with the latest timestamps.
IsMostRecent(result, available, n) ==
    /\ Len(result) = n
    /\ \A i \in 1..Len(available) :
          LET ms == available[i].timestamp.ms
          IN  CountAt(result, ms) =
                  Min2(CountAt(available, ms), Max2(0, n - CountNewer(available, ms)))

\* C10: getFreshCandles returns the min(count, available) most recent of the
\* available candles, from the cache as from Polygon.io.
C10_ReturnsMostRecent ==
    call.outcome = "ok" =>
        IsMostRecent(call.result, call.available,
                     Min2(call.count, Len(call.available)))

\* The same on the fetch path alone.
FreshFetchMostRecent ==
    (call.outcome = "ok" /\ call.source = "polygon") =>
        IsMostRecent(call.result, call.available,
                     Min2(call.count, Len(call.available)))

\* candle i of cs has the greatest timestamp of cs
IsNewest(cs, i) == \A j \in 1..Len(cs) : cs[j].timestamp.ms <= cs[i].timestamp.ms

\* C11: getLatestPrice returns the close of the candle with the greatest
\* timestamp among the candles it knows (the cached ones on a hit, the fetched
\* ones on a miss), and null when there is none or the fetch fails.
C11_LatestPriceIsNewestClose ==
    latestPrice.called =>
        IF call.outcome = "ok" /\ Len(call.available) > 0
        THEN /\ latestPrice.price # Null
             /\ \E i \in 1..Len(call.available) :
                    /\ IsNewest(call.available, i)
                    /\ latestPrice.price.value = call.available[i].close
        ELSE latestPrice.price = Null

\* The same on a cache miss alone.
LatestPriceOnMiss ==
    (latestPrice.called /\ call.source = "polygon") =>
        IF call.outcome = "ok" /\ Len(call.available) > 0
        THEN /\ latestPrice.price # Null
             /\ \E i \in 1..Len(call.available) :
                    /\ IsNewest(call.available, i)
                    /\ latestPrice.price.value = call.available[i].close
        ELSE latestPrice.price = Null

\* Symbol search, checked under SpecSearch.

\* C12: a search answered while a cached:false answer for the same limit and
\* the same q up to letter case is less than 300 seconds old answers
\* cached:true with that answer's symbols and count and without a database
\* query; a search with no such earlier answer queries the database and
\* answers cached:false.
C12_SearchCaching ==
    searchResponse.status = 200 =>
        IF searchResponse.after = Null
        THEN ~searchResponse.cached /\ searchResponse.queriedDb
        ELSE searchResponse.after # Stale
                => /\ searchResponse.cached
                   /\ ~searchResponse.queriedDb
                   /\ searchResponse.symbols = searchResponse.after.symbols
                   /\ searchResponse.count = searchResponse.after.count

\* A hit for a differently spelled q, 200 seconds after the answer it repeats,
\* while the table no longer holds what was cached.
C12_Witness ==
    /\ searchResponse.status = 200
    /\ searchResponse.cached
    /\ searchResponse.after \notin {Null, Stale}
    /\ searchResponse.after.query = <<"B", "T">>
    /\ searchResponse.after.age = 200
    /\ searchResponse.count = 2
    /\ \E r \in symbolsTable : ~r.isActive

\* PolygonWebSocketServer, checked under SpecServer.

\* C13: at most one upstream socket is connecting or open.
C13_SingleUpstreamSocket ==
    Cardinality({i \in 1..MaxSockets : Live(upstream[i])}) <= 1

\* a grace timeout fires and closes the live connection
GraceCloses ==
    /\ Len(graceTimers') < Len(graceTimers)
    /\ server.ws # 0
    /\ Live(upstream[server.ws])
    /\ server'.ws = 0

\* C14: a grace timeout closes the connection only when 30 seconds have passed
\* since the most recent removeSubscriber.
C14_GraceIsFullPeriod == [][GraceCloses => quiet >= GRACE_PERIOD_S]_vars

\* PolygonWebSocketClient, checked under SpecClient.

\* C15: once a socket is open, the auth message has been transmitted on it.
C15_AuthSentOnOpen ==
    \A i \in 1..MaxClientSockets :
        clientSockets[i].readyState = "OPEN" =>
            AuthMessage \in clientSockets[i].transmitted

\* the tickers a socket carried a subscribe for
Subscribed(sock) ==
    UNION {m.params : m \in {x \in sock.transmitted : x.action = "subscribe"}}

\* nothing is pending: no timeout, no socket event, no answer to an auth
\* message, and the server refused nothing
ClientSettled ==
    /\ clientTimeouts = 0
    /\ client.state # "error"
    /\ \A i \in 1..MaxClientSockets :
          /\ clientSockets[i].readyState \in {"none", "OPEN", "CLOSED"}
          /\ ~clientSockets[i].owesAuth

OneReconnectTimeout ==
    clientTimeouts = (IF client.reconnectTimer THEN 1 ELSE 0)

\* C17: after MAX_RETRIES consecutive connection errors with no open in
\* between, the hook creates no EventSource on its own (from the auto-connect
\* effect or from a reconnect timeout) until connect() is called explicitly,
\* and a successful open leaves the retry count at 0.
C17_StopsAfterMaxRetries ==
    /\ made \in {"effect", "timeout"} => errors < MAX_RETRIES
    /\ made = "open" => stream.retryCount = 0

\* The part of C17 that holds: an open resets the retry count.
OpenResetsRetryCount == made = "open" => stream.retryCount = 0

\* the time of the latest run before call i (-1 when there is none)
RunBefore(i) ==
    LET earlier == {j \in 1..(i - 1) : calls[j].ran}
    IN  IF earlier = {} THEN -1
        ELSE calls[CHOOSE j \in earlier : \A k \in earlier : k <= j].at

\* C20: the throttle wrapper runs the wrapped function at most once per
\* 1000 ms window: the first call runs at once; a call made less than the delay
\* after the last executed call is dropped and never replayed (the function
\* runs only inside a call that was allowed); a call made at least the delay
\* after the last executed call runs.
C20_Throttle ==
    /\ \A i \in 1..Len(runs) - 1 : runs[i + 1] - runs[i] >= THROTTLE_DELAY
    /\ Len(calls) >= 1 => calls[1].ran
    /\ \A i \in 2..Len(calls) :
          calls[i].ran <=> calls[i].at - RunBefore(i) >= THROTTLE_DELAY
    /\ runs = [i \in 1..Len(runs) |-> SelectSeq(calls, LAMBDA c : c.ran)[i].at]
    /\ Len(runs) = Len(SelectSeq(calls, LAMBDA c : c.ran))

\* A call exactly one delay after the last executed call ran, and a call one
\* millisecond short of it was dropped.
C20_Witness ==
    /\ Len(calls) = 3
    /\ calls[1].ran /\ ~calls[2].ran /\ calls[3].ran
    /\ calls[2].at = calls[1].at + THROTTLE_DELAY - 1
    /\ calls[3].at = calls[1].at + THROTTLE_DELAY

FetchDone == fetchPc \in {"returned", "thrown"}

\* The safety part of C18.
FetchWithRetrySafe ==
    /\ Len(attempts) <= fetchArgs.retries
    /\ waits = [k \in 1..Len(waits) |-> fetchArgs.backoffMs * Pow2(k - 1)]
    /\ \A k \in 1..Len(waits) : attempts[k] # "ok"
    /\ fetchPc = "request" => Len(waits) = Len(attempts)
    /\ fetchPc = "returned" =>
          /\ attempts[Len(attempts)] = "ok"
          /\ \A k \in 1..Len(attempts) - 1 : attempts[k] # "ok"
          /\ fetchResult = BodyOf(Len(attempts))
    /\ fetchPc = "thrown" /\ Len(attempts) > 0 =>
          /\ Len(attempts) = fetchArgs.retries
          /\ fetchResult = ErrorOf(Len(attempts), attempts[Len(attempts)])
    /\ FetchDone => Len(waits) = Len(attempts) - (IF Len(attempts) > 0 THEN 1 ELSE 0)

\* C18: fetchWithRetry always terminates; it issues at most `retries` requests,
\* waits backoffMs * 2^i after failed attempt i before the next one, returns
\* the body of the first successful response without further requests, and
\* after the last failed attempt rethrows that attempt's error.
C18_FetchWithRetry == []FetchWithRetrySafe /\ <>FetchDone

\* Four requests failed in different ways, three backoffs were waited, and the
\* fourth error reached the caller.
C18_Witness ==
    /\ fetchPc = "thrown"
    /\ fetchArgs.retries = 4
    /\ attempts = <<"4xx", "badjson", "5xx", "network">>
    /\ Len(waits) = 3

\* the first aggregate of rawData that carries timestamp t
FirstWithStamp(t) ==
    rawInput[CHOOSE i \in 1..Len(rawInput) :
                /\ rawInput[i].t = t
                /\ \A j \in 1..(i - 1) : rawInput[j].t # t]

\* The timestamps of the output are pairwise distinct and ascending, and each
\* candle comes from the first aggregate with its timestamp.
CleanedSortedFirsts ==
    cleaned.done =>
        /\ \A i \in 1..Len(cleaned.out) - 1 :
              cleaned.out[i].timestamp.ms < cleaned.out[i + 1].timestamp.ms
        /\ \A i \in 1..Len(cleaned.out) :
              cleaned.out[i].transactions = FirstWithStamp(cleaned.out[i].timestamp.ms).n

\* C19: every candle cleanOHLCVData returns satisfies isValidCandle, whatever
\* the raw input (missing or zero OHLC values in the first or a later candle
\* included), and the output has pairwise distinct ascending timestamps, the
\* first occurrence of each duplicated timestamp being the one kept.
C19_CleanedCandlesValid ==
    /\ cleaned.done => \A i \in 1..Len(cleaned.out) : IsValidCandle(cleaned.out[i])
    /\ CleanedSortedFirsts

\* What holds of validity: the output is valid when the first candle that
\* passes validateCandles has its four prices.
CleanedValidAfterCompleteFirst ==
    cleaned.done /\ Len(cleaned.out) > 0 =>
        LET firsts == ValidateCandles(RemoveDuplicates(
                          [i \in 1..Len(rawInput) |-> ToCandle(rawInput[i])]))
        IN  IsValidCandle(firsts[1]) =>
                \A i \in 1..Len(cleaned.out) : IsValidCandle(cleaned.out[i])

\* C23: fetchWithRetry does not retry client errors: a request answered with a
\* 4xx status is the only and last one, its error reaches the caller at once,
\* and no backoff is waited after it.
C23_ClientErrorNotRetried ==
    \A k \in 1..Len(attempts) :
        attempts[k] = "4xx" =>
            /\ k = Len(attempts)
            /\ Len(waits) < k
            /\ fetchPc = "thrown"
            /\ fetchResult = ErrorOf(k, "4xx")

\* The case of C23 that holds: the 4xx answer to the last attempt is thrown
\* without a wait.
ClientErrorOnLastAttempt ==
    \A k \in 1..Len(attempts) :
        attempts[k] = "4xx" /\ k = fetchArgs.retries =>
            /\ fetchPc = "thrown"
            /\ fetchResult = ErrorOf(k, "4xx")
            /\ Len(waits) = k - 1

\* C21: formatVolumeData gives a bar upColor iff the candle closes strictly
\* above its open and downColor whenever close <= open (equality included);
\* there is one bar per candle, with the candle's time and volume.
C21_VolumeColours ==
    volumeResult.done =>
        /\ Len(volumeResult.out) = Len(chartData)
        /\ \A i \in 1..Len(chartData) :
              /\ volumeResult.out[i].time = chartData[i].time
              /\ volumeResult.out[i].value = chartData[i].volume
              /\ volumeResult.out[i].color = UpColor
                    <=> chartData[i].close > chartData[i].open
              /\ chartData[i].close <= chartData[i].open
                    => volumeResult.out[i].color = DownColor

\* The part of C21 that holds: one bar per candle with its time and volume, up
\* candles upColor, down candles downColor.
VolumeBarsKeepTimeAndVolume ==
    volumeResult.done =>
        /\ Len(volumeResult.out) = Len(chartData)
        /\ \A i \in 1..Len(chartData) :
              /\ volumeResult.out[i].time = chartData[i].time
              /\ volumeResult.out[i].value = chartData[i].volume
              /\ chartData[i].close > chartData[i].open
                    => volumeResult.out[i].color = UpColor
              /\ chartData[i].close < chartData[i].open
                    => volumeResult.out[i].color = DownColor

\* a value within [0, 100]
InOscillatorRange(v) == v.d > 0 /\ 0 <= v.n /\ v.n <= 100 * v.d

\* C22: calculateRSI returns exactly data.length - period values (none when
\* data.length < period + 1), each within [0, 100], for every series of
\* positive closes: rising, falling and constant ones included.
C22_RsiCountAndRange ==
    rsiResult.done =>
        /\ Len(rsiResult.out) =
              (IF Len(chartData) < rsiPeriod + 1 THEN 0 ELSE Len(chartData) - rsiPeriod)
        /\ \A i \in 1..Len(rsiResult.out) :
              /\ InOscillatorRange(rsiResult.out[i].value)
              /\ rsiResult.out[i].time = chartData[rsiPeriod + i].time

\* A series that rises and then falls, period 2: the first value is 50 and the
\* smoothed second one 25.
C22_Witness ==
    /\ rsiResult.done
    /\ rsiPeriod = 2
    /\ [i \in 1..Len(chartData) |-> chartData[i].close] = <<4, 6, 4, 2>>
    /\ [i \in 1..Len(rsiResult.out) |-> rsiResult.out[i].value]
          = <<[n |-> 50, d |-> 1], [n |-> 25, d |-> 1]>>

\* Rising, falling and constant series: without a loss the value is
\* 100 - 100 / 101, without a gain but with a loss it is 0.
RsiOfMonotoneSeries ==
    rsiResult.done =>
        /\ (\A k \in 1..Len(chartData) - 1 : chartData[k + 1].close >= chartData[k].close)
              => \A i \in 1..Len(rsiResult.out) :
                    rsiResult.out[i].value = [n |-> 10000, d |-> 101]
        /\ (\A k \in 1..Len(chartData) - 1 : chartData[k + 1].close < chartData[k].close)
              => \A i \in 1..Len(rsiResult.out) :
                    rsiResult.out[i].value = [n |-> 0, d |-> 1]

\* C24: what getAggregates returns over all the pages it followed has pairwise
\* distinct timestamps in ascending order, also when a timestamp appears on
\* two pages.  (call.available is getAggregates' result on the fetch path.)
C24_AggregatesCleanAcrossPages ==
    (call.outcome = "ok" /\ call.source = "polygon") =>
        \A i \in 1..(Len(call.available) - 1) :
            call.available[i].timestamp.ms < call.available[i + 1].timestamp.ms

\* The part of C24 that holds: the concatenation never steps back in time
\* (Polygon.io answers sort=asc and each page is sorted again).
AggregatesNeverDescend ==
    (call.outcome = "ok" /\ call.source = "polygon") =>
        \A i \in 1..(Len(call.available) - 1) :
            call.available[i].timestamp.ms <= call.available[i + 1].timestamp.ms

====
